---------------------------- MODULE Spec2Model ----------------------------
(***************************************************************************)
(* Model of the quantitative calculation layer of the portfolio tracker:   *)
(* scripts/calculators/{position_sizer,phase_detector,rebalancer,          *)
(* risk_metrics}.py, of the emergency-fund tracker                         *)
(* scripts/trackers/ef_tracker.py and of the exchange-rate fetcher         *)
(* scripts/data_fetchers/fx_fetcher.py.                                    *)
(*                                                                         *)
(* Every calculator is a function of its arguments.  A behaviour of the    *)
(* model is one call: the initial state holds the call (operation and      *)
(* arguments, drawn from bounded sets), and the operation's action         *)
(* computes the result the way the code does.  SpecSession continues with  *)
(* further calls, between which the caller may change a returned mapping.  *)
(*                                                                         *)
(* State.  call, result and pc are the call in progress; globals holds the *)
(* module-level tables of phase_detector.py; shared names the module-level *)
(* table that is the very object the caller holds as the result ("new"     *)
(* when the result is an object of its own); first remembers the first     *)
(* call of the behaviour, its result, and whether the caller has changed   *)
(* that result since.  tracker is an EmergencyFundTracker object with the  *)
(* file it saves to; now is the clock, _cache the module-level cache of    *)
(* fx_fetcher.py and contacted the sources the last fetcher call asked.    *)
(*                                                                         *)
(* Numbers.  Python floats are modelled by exact arithmetic on two grids,  *)
(* each extended with the IEEE specials NaN, +inf and -inf:                *)
(*   Q-numbers  [k, n, d]   the rational n/d in lowest terms (d > 0);      *)
(*   W-numbers  [k, c, f]   the real c/100 + f * 1e-12, used by the        *)
(*                          rebalancer, whose epsilon is 1e-12.            *)
(* Rounding of the last binary digit of a float is not modelled.           *)
(***************************************************************************)
EXTENDS Integers, Sequences, FiniteSets, TLC

VARIABLES call, result, pc, globals, shared, first,
          tracker, now, _cache, contacted

vars == <<call, result, pc, globals, shared, first,
          tracker, now, _cache, contacted>>

\* the state outside the calculators: the tracker object and the fetcher
services == <<tracker, now, _cache, contacted>>

(***************************************************************************)
(* Python's None, and the two ways a call ends.                            *)
(***************************************************************************)
None == [k |-> "none"]

Returns(v) == [k |-> "return", val |-> v]

Raises(e) == [k |-> "raise", exc |-> e]

Abs(i) == IF i < 0 THEN -i ELSE i

RECURSIVE GCD(_, _)
GCD(a, b) == IF b = 0 THEN a ELSE GCD(b, a % b)

(***************************************************************************)
(* Q-numbers: floats as exact rationals plus NaN, +inf, -inf.              *)
(***************************************************************************)
Q(n, d) ==
    LET s == IF d < 0 THEN -1 ELSE 1
        g == GCD(Abs(n), Abs(d))
    IN  [k |-> "fin", n |-> (s * n) \div g, d |-> (s * d) \div g]

QNaN == [k |-> "nan", n |-> 0, d |-> 1]

QPInf == [k |-> "pinf", n |-> 0, d |-> 1]

QNInf == [k |-> "ninf", n |-> 0, d |-> 1]

QZero == Q(0, 1)

QOne == Q(1, 1)

QHalf == Q(1, 2)

\* math.isfinite
QIsFinite(x) == x.k = "fin"

\* x < y and x <= y on floats: every comparison with NaN is false
QLt(x, y) ==
    CASE x.k = "nan" \/ y.k = "nan" -> FALSE
      [] x.k = "pinf" \/ y.k = "ninf" -> FALSE
      [] x.k = "ninf" \/ y.k = "pinf" -> TRUE
      [] OTHER -> x.n * y.d < y.n * x.d

QLe(x, y) ==
    CASE x.k = "nan" \/ y.k = "nan" -> FALSE
      [] x.k = "fin" /\ y.k = "fin" -> x.n * y.d <= y.n * x.d
      [] OTHER -> x = y \/ QLt(x, y)

QNeg(x) ==
    CASE x.k = "fin" -> Q(-x.n, x.d)
      [] x.k = "pinf" -> QNInf
      [] x.k = "ninf" -> QPInf
      [] OTHER -> QNaN

\* IEEE addition: inf + (-inf) is NaN
QAdd(x, y) ==
    CASE x.k = "nan" \/ y.k = "nan" -> QNaN
      [] x.k = "fin" /\ y.k = "fin" -> Q(x.n * y.d + y.n * x.d, x.d * y.d)
      [] x.k = "fin" -> y
      [] y.k = "fin" -> x
      [] x.k = y.k -> x
      [] OTHER -> QNaN

QSub(x, y) == QAdd(x, QNeg(y))

\* the code multiplies finite operands only (after its isfinite guards)
QMul(x, y) == Q(x.n * y.n, x.d * y.d)

\* x / y for a divisor y that is not 0 and not NaN (the code divides by b > 0
\* and by running_peak > 0 only); inf / inf is NaN
QDiv(x, y) ==
    CASE x.k = "nan" -> QNaN
      [] x.k = "fin" /\ y.k = "fin" -> Q(x.n * y.d, x.d * y.n)
      [] x.k = "fin" -> QZero
      [] y.k = "fin" -> IF y.n > 0 THEN x ELSE QNeg(x)
      [] OTHER -> QNaN

\* Python's max(a, b): b if b > a else a
QMax(a, b) == IF QLt(a, b) THEN b ELSE a

\* np.clip(x, lo, hi) = minimum(maximum(x, lo), hi), finite operands
npclip(x, lo, hi) ==
    LET m == IF QLt(x, lo) THEN lo ELSE x
    IN  IF QLt(hi, m) THEN hi ELSE m

(***************************************************************************)
(* position_sizer.py                                                       *)
(***************************************************************************)
\* a variant that forgets to halve: full Kelly, clipped
kelly_criterion_full(win_rate, win_loss_ratio) ==
    IF ~(QIsFinite(win_rate) /\ QIsFinite(win_loss_ratio))
    THEN QZero
    ELSE LET p == npclip(win_rate, QZero, QOne)
             b == win_loss_ratio
         IN  IF QLe(b, QZero)
             THEN QZero
             ELSE npclip(QSub(p, QDiv(QSub(QOne, p), b)), QZero, QOne)

\* a variant that uses win_rate as given, without clipping it to [0, 1]
kelly_criterion_unclipped(win_rate, win_loss_ratio) ==
    IF ~(QIsFinite(win_rate) /\ QIsFinite(win_loss_ratio))
    THEN QZero
    ELSE LET p == win_rate
             b == win_loss_ratio
         IN  IF QLe(b, QZero)
             THEN QZero
             ELSE LET full_kelly == QSub(p, QDiv(QSub(QOne, p), b))
                      half_kelly == QMul(QHalf, full_kelly)
                  IN  IF ~QIsFinite(half_kelly)
                      THEN QZero
                      ELSE npclip(half_kelly, QZero, QOne)

kelly_criterion(win_rate, win_loss_ratio) ==
    IF ~(QIsFinite(win_rate) /\ QIsFinite(win_loss_ratio))
    THEN QZero
    ELSE LET p == npclip(win_rate, QZero, QOne)
             b == win_loss_ratio
         IN  IF QLe(b, QZero)
             THEN QZero
             ELSE LET full_kelly == QSub(p, QDiv(QSub(QOne, p), b))
                      half_kelly == QMul(QHalf, full_kelly)
                  IN  IF ~QIsFinite(half_kelly)
                      THEN QZero
                      ELSE npclip(half_kelly, QZero, QOne)

\* a variant that ignores max_allocation as a cap
calculate_position_size_uncapped(portfolio_value, kelly_fraction, max_allocation) ==
    IF ~(QIsFinite(portfolio_value) /\ QIsFinite(kelly_fraction)
            /\ QIsFinite(max_allocation))
    THEN QZero
    ELSE IF QLe(portfolio_value, QZero) \/ QLe(max_allocation, QZero)
         THEN QZero
         ELSE QMax(QZero, QMul(portfolio_value, QMax(QZero, kelly_fraction)))

\* a variant that does not check kelly_fraction for finiteness
calculate_position_size_unchecked_fraction(portfolio_value, kelly_fraction, max_allocation) ==
    IF ~(QIsFinite(portfolio_value) /\ QIsFinite(max_allocation))
    THEN QZero
    ELSE LET pv == portfolio_value
             cap == max_allocation
         IN  IF QLe(pv, QZero)
             THEN QZero
             ELSE IF QLe(cap, QZero)
                  THEN QZero
                  ELSE LET fraction == npclip(kelly_fraction, QZero, cap)
                       IN  QMax(QZero, QMul(pv, fraction))

calculate_position_size(portfolio_value, kelly_fraction, max_allocation) ==
    IF ~(QIsFinite(portfolio_value) /\ QIsFinite(kelly_fraction)
            /\ QIsFinite(max_allocation))
    THEN QZero
    ELSE LET pv == portfolio_value
             cap == max_allocation
         IN  IF QLe(pv, QZero)
             THEN QZero
             ELSE IF QLe(cap, QZero)
                  THEN QZero
                  ELSE LET fraction == npclip(kelly_fraction, QZero, cap)
                       IN  QMax(QZero, QMul(pv, fraction))

(***************************************************************************)
(* phase_detector.py                                                       *)
(***************************************************************************)
\* a variant that still reports phase 1 when the balance equals the target
detect_phase_inclusive(ef_balance, ef_target) ==
    IF ~(QIsFinite(ef_balance) /\ QIsFinite(ef_target))
    THEN 2
    ELSE IF QLe(ef_target, QZero)
         THEN 2
         ELSE IF QLe(ef_balance, ef_target) THEN 1 ELSE 2

detect_phase(ef_balance, ef_target) ==
    IF ~(QIsFinite(ef_balance) /\ QIsFinite(ef_target))
    THEN 2
    ELSE IF QLe(ef_target, QZero)
         THEN 2
         ELSE IF QLt(ef_balance, ef_target) THEN 1 ELSE 2


(***************************************************************************)
(* W-numbers: the float c/100 + f * 1e-12 (|f| * 1e-12 stays far below     *)
(* 1/100, so the order is lexicographic on <<c, f>>), plus NaN, +inf, -inf.*)
(***************************************************************************)
W(c, f) == [k |-> "fin", c |-> c, f |-> f]

WNaN == [k |-> "nan", c |-> 0, f |-> 0]

WPInf == [k |-> "pinf", c |-> 0, f |-> 0]

WNInf == [k |-> "ninf", c |-> 0, f |-> 0]

WZero == W(0, 0)

WIsFinite(x) == x.k = "fin"

WLt(x, y) ==
    CASE x.k = "nan" \/ y.k = "nan" -> FALSE
      [] x.k = "pinf" \/ y.k = "ninf" -> FALSE
      [] x.k = "ninf" \/ y.k = "pinf" -> TRUE
      [] OTHER -> x.c < y.c \/ (x.c = y.c /\ x.f < y.f)

WLe(x, y) ==
    CASE x.k = "nan" \/ y.k = "nan" -> FALSE
      [] OTHER -> x = y \/ WLt(x, y)

WNeg(x) ==
    CASE x.k = "fin" -> W(-x.c, -x.f)
      [] x.k = "pinf" -> WNInf
      [] x.k = "ninf" -> WPInf
      [] OTHER -> WNaN

\* IEEE addition: inf + (-inf) is NaN
WAdd(x, y) ==
    CASE x.k = "nan" \/ y.k = "nan" -> WNaN
      [] x.k = "fin" /\ y.k = "fin" -> W(x.c + y.c, x.f + y.f)
      [] x.k = "fin" -> y
      [] y.k = "fin" -> x
      [] x.k = y.k -> x
      [] OTHER -> WNaN

WSub(x, y) == WAdd(x, WNeg(y))

\* abs(x)
WAbs(x) ==
    CASE x.k = "fin" -> IF WLt(x, WZero) THEN WNeg(x) ELSE x
      [] x.k = "nan" -> WNaN
      [] OTHER -> WPInf

\* pv * w for a finite pv > 0: a whole number pv.n of currency units, or
\* pv.n epsilons (a record with a field unit), which is multiplied with
\* weights of whole hundredths only
WScale(pv, w) ==
    IF w.k # "fin"
    THEN w
    ELSE IF "unit" \in DOMAIN pv
         THEN W(0, (pv.n * w.c) \div 100)
         ELSE W(pv.n * w.c, pv.n * w.f)

\* Python's max(a, b): b if b > a else a
WMax(a, b) == IF WLt(a, b) THEN b ELSE a

(***************************************************************************)
(* Python lists: list.sort(key = ..., reverse = True) reverses the list,   *)
(* sorts it stably into ascending key order and reverses it again.  For    *)
(* the lists of at most three records built here, CPython's run detection  *)
(* and binary insertion make the comparisons of insertion from the right.  *)
(***************************************************************************)
RECURSIVE Reverse(_)
Reverse(s) == IF s = <<>> THEN <<>> ELSE Append(Reverse(Tail(s)), Head(s))

\* insert x into the ascending list s of <<key, item>> pairs: x moves left
\* while key(x) < key(left neighbour)
RECURSIVE InsertByKey(_, _)
InsertByKey(s, x) ==
    IF s = <<>>
    THEN <<x>>
    ELSE IF WLt(x[1], s[Len(s)][1])
         THEN Append(InsertByKey(SubSeq(s, 1, Len(s) - 1), x), s[Len(s)])
         ELSE Append(s, x)

RECURSIVE SortAscending(_)
SortAscending(s) ==
    IF s = <<>>
    THEN <<>>
    ELSE InsertByKey(SortAscending(SubSeq(s, 1, Len(s) - 1)), s[Len(s)])

\* a variant that sorts ascending and then reverses: equal keys change places
reverse_sort_unstable(keyed) == Reverse(SortAscending(keyed))

\* the reverse = True sort of a list of <<key, item>> pairs
reverse_sort(keyed) == Reverse(SortAscending(Reverse(keyed)))

\* s.sort(key = ..., reverse = True), keys[i] being the key of s[i]
sort_reverse(s, keys) ==
    LET keyed == [i \in 1..Len(s) |-> <<keys[i], s[i]>>]
        ordered == reverse_sort(keyed)
    IN  [i \in 1..Len(s) |-> ordered[i][2]]


(***************************************************************************)
(* phase_detector.py: the two module-level allocation tables               *)
(***************************************************************************)
_PHASE_1_TARGET ==
    [ef |-> W(80, 0), stocks |-> W(10, 0), crypto |-> W(10, 0)]

_PHASE_2_TARGET ==
    [ef |-> W(20, 0), stocks |-> W(50, 0), crypto |-> W(20, 0), bonds |-> W(10, 0)]

\* dict(d): a fresh mapping with the same items
dict(d) == [a \in DOMAIN d |-> d[a]]

\* a variant that falls back to the phase 2 table instead of raising
get_allocation_target_lenient(phase) ==
    IF phase = 1
    THEN Returns(dict(globals._PHASE_1_TARGET))
    ELSE Returns(dict(globals._PHASE_2_TARGET))

get_allocation_target(phase) ==
    IF phase = 1
    THEN Returns(dict(globals._PHASE_1_TARGET))
    ELSE IF phase = 2
         THEN Returns(dict(globals._PHASE_2_TARGET))
         ELSE Raises("ValueError")

\* a variant that returns the module-level table itself
returned_object_table(phase) ==
    IF phase = 1 THEN "_PHASE_1_TARGET"
    ELSE IF phase = 2 THEN "_PHASE_2_TARGET" ELSE "new"

\* the object get_allocation_target returns: dict(...) builds a new one
returned_object(phase) == "new"

(***************************************************************************)
(* rebalancer.py                                                           *)
(***************************************************************************)
_EPS == W(0, 1)

\* the asset labels of the model, in the order sorted() gives them
AssetOrder == <<"bonds", "ef", "stocks">>

\* sorted(assets)
sorted(assets) == SelectSeq(AssetOrder, LAMBDA a : a \in assets)

\* float(m.get(asset, 0.0) or 0.0): a missing key, None and 0 all give 0.0
get_weight(m, asset) ==
    IF asset \notin DOMAIN m
    THEN WZero
    ELSE IF m[asset].k = "none" \/ m[asset] = WZero THEN WZero ELSE m[asset]

\* a variant of the loop body that compares without the epsilon
drift_step_exact(done, asset, current, target, threshold_value) ==
    LET current_w == get_weight(current, asset)
        target_w == get_weight(target, asset)
        drift == WSub(current_w, target_w)
    IN  IF WLt(WAbs(drift), WMax(threshold_value, WZero))
        THEN done
        ELSE Append(done,
                    [asset |-> asset,
                     action |-> IF WLt(WZero, drift) THEN "sell" ELSE "buy",
                     amount |-> WAbs(drift),
                     current_weight |-> current_w,
                     target_weight |-> target_w,
                     drift |-> drift])

\* a variant of the loop body that sells on a drift of exactly 0
drift_step_sell_on_zero(done, asset, current, target, threshold_value) ==
    LET current_w == get_weight(current, asset)
        target_w == get_weight(target, asset)
        drift == WSub(current_w, target_w)
    IN  IF WLt(WAdd(WAbs(drift), _EPS), WMax(threshold_value, WZero))
        THEN done
        ELSE Append(done,
                    [asset |-> asset,
                     action |-> IF WLe(WZero, drift) THEN "sell" ELSE "buy",
                     amount |-> WAbs(drift),
                     current_weight |-> current_w,
                     target_weight |-> target_w,
                     drift |-> drift])

\* a variant of the loop body that calls a surplus a "buy"
drift_step_buy_on_surplus(done, asset, current, target, threshold_value) ==
    LET current_w == get_weight(current, asset)
        target_w == get_weight(target, asset)
        drift == WSub(current_w, target_w)
    IN  IF WLt(WAdd(WAbs(drift), _EPS), WMax(threshold_value, WZero))
        THEN done
        ELSE Append(done,
                    [asset |-> asset,
                     action |-> IF WLt(WZero, drift) THEN "buy" ELSE "sell",
                     amount |-> WAbs(drift),
                     current_weight |-> current_w,
                     target_weight |-> target_w,
                     drift |-> drift])

\* the loop body of check_allocation_drift: the records of `done` plus the
\* record of `asset`, if it is not skipped
drift_step(done, asset, current, target, threshold_value) ==
    LET current_w == get_weight(current, asset)
        target_w == get_weight(target, asset)
        drift == WSub(current_w, target_w)
    IN  IF WLt(WAdd(WAbs(drift), _EPS), WMax(threshold_value, WZero))
        THEN done
        ELSE Append(done,
                    [asset |-> asset,
                     action |-> IF WLt(WZero, drift) THEN "sell" ELSE "buy",
                     amount |-> WAbs(drift),
                     current_weight |-> current_w,
                     target_weight |-> target_w,
                     drift |-> drift])

RECURSIVE drift_loop(_, _, _, _)
drift_loop(assets, current, target, threshold_value) ==
    IF assets = <<>>
    THEN <<>>
    ELSE drift_step(drift_loop(SubSeq(assets, 1, Len(assets) - 1),
                               current, target, threshold_value),
                    assets[Len(assets)], current, target, threshold_value)

check_allocation_drift(current, target, threshold) ==
    LET threshold_value ==
            IF threshold.k = "none" \/ ~WIsFinite(threshold)
            THEN W(5, 0)
            ELSE threshold
        assets == DOMAIN current \cup DOMAIN target
        results == drift_loop(sorted(assets), current, target, threshold_value)
    IN  sort_reverse(results, [i \in 1..Len(results) |-> WAbs(results[i].drift)])

\* a variant of the loop body that keeps a trade of exactly epsilon
trade_step_strict(done, asset, pv, current, target) ==
    LET current_w == get_weight(current, asset)
        target_w == get_weight(target, asset)
        current_value == WScale(pv, current_w)
        target_value == WScale(pv, target_w)
        trade_value == WSub(target_value, current_value)
    IN  IF WLt(WAbs(trade_value), _EPS)
        THEN done
        ELSE Append(done,
                    [asset |-> asset,
                     action |-> IF WLt(WZero, trade_value) THEN "buy" ELSE "sell",
                     amount |-> WAbs(trade_value),
                     current_value |-> current_value,
                     target_value |-> target_value,
                     trade_value |-> trade_value])

\* a variant of the loop body that records the trade value without its sign
trade_step_unsigned(done, asset, pv, current, target) ==
    LET current_w == get_weight(current, asset)
        target_w == get_weight(target, asset)
        current_value == WScale(pv, current_w)
        target_value == WScale(pv, target_w)
        trade_value == WSub(target_value, current_value)
    IN  IF WLe(WAbs(trade_value), _EPS)
        THEN done
        ELSE Append(done,
                    [asset |-> asset,
                     action |-> IF WLt(WZero, trade_value) THEN "buy" ELSE "sell",
                     amount |-> WAbs(trade_value),
                     current_value |-> current_value,
                     target_value |-> target_value,
                     trade_value |-> WAbs(trade_value)])

\* the loop body of calculate_rebalance_trades
trade_step(done, asset, pv, current, target) ==
    LET current_w == get_weight(current, asset)
        target_w == get_weight(target, asset)
        current_value == WScale(pv, current_w)
        target_value == WScale(pv, target_w)
        trade_value == WSub(target_value, current_value)
    IN  IF WLe(WAbs(trade_value), _EPS)
        THEN done
        ELSE Append(done,
                    [asset |-> asset,
                     action |-> IF WLt(WZero, trade_value) THEN "buy" ELSE "sell",
                     amount |-> WAbs(trade_value),
                     current_value |-> current_value,
                     target_value |-> target_value,
                     trade_value |-> trade_value])

RECURSIVE trade_loop(_, _, _, _)
trade_loop(assets, pv, current, target) ==
    IF assets = <<>>
    THEN <<>>
    ELSE trade_step(trade_loop(SubSeq(assets, 1, Len(assets) - 1),
                               pv, current, target),
                    assets[Len(assets)], pv, current, target)

\* a variant that trades for a portfolio_value <= 0 as well
calculate_rebalance_trades_any_value(portfolio_value, current, target) ==
    IF portfolio_value.k = "none" \/ ~QIsFinite(portfolio_value)
    THEN <<>>
    ELSE LET pv == portfolio_value
             assets == DOMAIN current \cup DOMAIN target
             trades == trade_loop(sorted(assets), pv, current, target)
         IN  sort_reverse(trades, [i \in 1..Len(trades) |-> trades[i].amount])

\* portfolio_value is None or a Q-number holding a whole number
calculate_rebalance_trades(portfolio_value, current, target) ==
    IF portfolio_value.k = "none" \/ ~QIsFinite(portfolio_value)
    THEN <<>>
    ELSE IF QLe(portfolio_value, QZero)
         THEN <<>>
         ELSE LET pv == portfolio_value
                  assets == DOMAIN current \cup DOMAIN target
                  trades == trade_loop(sorted(assets), pv, current, target)
              IN  sort_reverse(trades, [i \in 1..Len(trades) |-> trades[i].amount])


(***************************************************************************)
(* risk_metrics.py                                                         *)
(* A list element is a Q-number, None, or a text that is not a number      *)
(* ([k |-> "str"]).  np.asarray(data, dtype=float) turns None into NaN and *)
(* fails on the text.                                                      *)
(***************************************************************************)
NotANumber == [k |-> "str"]

_to_1d_float_array(data) ==
    IF \E i \in 1..Len(data) : data[i].k = "str"
    THEN Raises("ValueError")
    ELSE Returns([i \in 1..Len(data) |->
                     IF data[i].k = "none" THEN QNaN ELSE data[i]])

\* a variant of the iteration that measures the fall in currency units
\* instead of as a fraction of the running peak
drawdown_step_amount(st, v, i) ==
    LET val == v[i + 1]
        newPeak == QLt(st.running_peak, val)
        running_peak == IF newPeak THEN val ELSE st.running_peak
        running_peak_idx == IF newPeak THEN i ELSE st.running_peak_idx
        dd == IF QLt(QZero, running_peak)
              THEN QSub(running_peak, val)
              ELSE QZero
        better == QLt(st.best_dd, dd)
    IN  [running_peak |-> running_peak,
         running_peak_idx |-> running_peak_idx,
         best_dd |-> IF better THEN dd ELSE st.best_dd,
         best_peak_idx |-> IF better THEN running_peak_idx ELSE st.best_peak_idx,
         best_trough_idx |-> IF better THEN i ELSE st.best_trough_idx]

\* a variant of the iteration that also records a drawdown equal to the best
drawdown_step_last(st, v, i) ==
    LET val == v[i + 1]
        newPeak == QLt(st.running_peak, val)
        running_peak == IF newPeak THEN val ELSE st.running_peak
        running_peak_idx == IF newPeak THEN i ELSE st.running_peak_idx
        dd == IF QLt(QZero, running_peak)
              THEN QSub(QOne, QDiv(val, running_peak))
              ELSE QZero
        better == QLe(st.best_dd, dd)
    IN  [running_peak |-> running_peak,
         running_peak_idx |-> running_peak_idx,
         best_dd |-> IF better THEN dd ELSE st.best_dd,
         best_peak_idx |-> IF better THEN running_peak_idx ELSE st.best_peak_idx,
         best_trough_idx |-> IF better THEN i ELSE st.best_trough_idx]

\* one iteration of the scan of calculate_max_drawdown, at Python index i
drawdown_step(st, v, i) ==
    LET val == v[i + 1]
        newPeak == QLt(st.running_peak, val)
        running_peak == IF newPeak THEN val ELSE st.running_peak
        running_peak_idx == IF newPeak THEN i ELSE st.running_peak_idx
        dd == IF QLt(QZero, running_peak)
              THEN QSub(QOne, QDiv(val, running_peak))
              ELSE QZero
        better == QLt(st.best_dd, dd)
    IN  [running_peak |-> running_peak,
         running_peak_idx |-> running_peak_idx,
         best_dd |-> IF better THEN dd ELSE st.best_dd,
         best_peak_idx |-> IF better THEN running_peak_idx ELSE st.best_peak_idx,
         best_trough_idx |-> IF better THEN i ELSE st.best_trough_idx]

\* the state of the scan after the iterations i = 0 .. m - 1
RECURSIVE drawdown_scan(_, _)
drawdown_scan(v, m) ==
    IF m = 0
    THEN [running_peak |-> v[1], running_peak_idx |-> 0,
          best_dd |-> QZero, best_peak_idx |-> 0, best_trough_idx |-> 0]
    ELSE drawdown_step(drawdown_scan(v, m - 1), v, m - 1)

\* a variant that reports the index of the highest value of the whole series
\* as the peak
calculate_max_drawdown_global_peak(values) ==
    LET arr == _to_1d_float_array(values)
    IN  IF arr.k = "raise"
        THEN arr
        ELSE LET v == arr.val
                 n == Len(v)
             IN  IF n = 0
                 THEN Returns(<<QZero, -1, -1>>)
                 ELSE IF n = 1
                      THEN Returns(<<QZero, 0, 0>>)
                      ELSE LET st == drawdown_scan(v, n)
                           IN  Returns(<<st.best_dd, st.running_peak_idx,
                                         st.best_trough_idx>>)


\* a variant without the sentinel indices of the empty series
calculate_max_drawdown_no_sentinel(values) ==
    LET arr == _to_1d_float_array(values)
    IN  IF arr.k = "raise"
        THEN arr
        ELSE LET v == arr.val
                 n == Len(v)
             IN  IF n <= 1
                 THEN Returns(<<QZero, 0, 0>>)
                 ELSE LET st == drawdown_scan(v, n)
                      IN  Returns(<<st.best_dd, st.best_peak_idx,
                                    st.best_trough_idx>>)

\* the returned tuple (max_dd, peak_idx, trough_idx), indices counted from 0
calculate_max_drawdown(values) ==
    LET arr == _to_1d_float_array(values)
    IN  IF arr.k = "raise"
        THEN arr
        ELSE LET v == arr.val
                 n == Len(v)
             IN  IF n = 0
                 THEN Returns(<<QZero, -1, -1>>)
                 ELSE IF n = 1
                      THEN Returns(<<QZero, 0, 0>>)
                      ELSE LET st == drawdown_scan(v, n)
                           IN  Returns(<<st.best_dd, st.best_peak_idx,
                                         st.best_trough_idx>>)


(***************************************************************************)
(* X-numbers: the floats of the ratio metrics.  The per-period risk-free   *)
(* rate p = (1 + a)^(1/252) - 1 of an annual rate a is irrational, so a    *)
(* finite X-number is a polynomial c[1] + c[2]*p + c[3]*p^2 with rational  *)
(* coefficients, kept exactly; a is 0 when the number is free of p.  For   *)
(* the annual rates of the model (-1/4 <= a <= 1/4) |p| < 0.0012, which is *)
(* below every non-zero rational the model forms (at least 1/40), so the   *)
(* sign of a polynomial is the sign of its first non-zero term.            *)
(* Rounding is not modelled: a series of equal floats has deviation 0.     *)
(***************************************************************************)
TRADING_DAYS_PER_YEAR == 252

X(c0, c1, c2, a) ==
    [k |-> "fin", c |-> <<c0, c1, c2>>,
     a |-> IF c1 = QZero /\ c2 = QZero THEN QZero ELSE a]

XNaN == [k |-> "nan"]

XPInf == [k |-> "pinf"]

XNInf == [k |-> "ninf"]

XZero == X(QZero, QZero, QZero, QZero)

\* a float of the input array as an X-number
XOf(q) == IF q.k = "fin" THEN X(q, QZero, QZero, QZero) ELSE [k |-> q.k]

\* math.isfinite
XIsFinite(x) == x.k = "fin"

QSign(q) == IF q.n > 0 THEN 1 ELSE IF q.n < 0 THEN -1 ELSE 0

\* the sign of a finite X-number
XSign(x) ==
    IF x.c[1] # QZero THEN QSign(x.c[1])
    ELSE IF x.c[2] # QZero THEN QSign(x.c[2]) * QSign(x.a)
    ELSE QSign(x.c[3])

XNeg(x) ==
    CASE x.k = "fin" -> X(QNeg(x.c[1]), QNeg(x.c[2]), QNeg(x.c[3]), x.a)
      [] x.k = "pinf" -> XNInf
      [] x.k = "ninf" -> XPInf
      [] OTHER -> XNaN

\* IEEE addition: inf + (-inf) is NaN; both operands are of the same call,
\* so they share the rate a
XAdd(x, y) ==
    CASE x.k = "nan" \/ y.k = "nan" -> XNaN
      [] x.k = "fin" /\ y.k = "fin" ->
            X(QAdd(x.c[1], y.c[1]), QAdd(x.c[2], y.c[2]),
              QAdd(x.c[3], y.c[3]), IF x.a = QZero THEN y.a ELSE x.a)
      [] x.k = "fin" -> y
      [] y.k = "fin" -> x
      [] x.k = y.k -> x
      [] OTHER -> XNaN

XSub(x, y) == XAdd(x, XNeg(y))

\* x / n for a count n > 0
XDivInt(x, n) ==
    IF x.k = "fin"
    THEN X(QDiv(x.c[1], Q(n, 1)), QDiv(x.c[2], Q(n, 1)),
           QDiv(x.c[3], Q(n, 1)), x.a)
    ELSE x

\* np.square, of a number of degree <= 1 in p
XSquare(x) ==
    CASE x.k = "nan" -> XNaN
      [] x.k = "fin" ->
            X(QMul(x.c[1], x.c[1]),
              QMul(Q(2, 1), QMul(x.c[1], x.c[2])),
              QMul(x.c[2], x.c[2]), x.a)
      [] OTHER -> XPInf

\* the sum of an array
RECURSIVE XSum(_)
XSum(x) ==
    IF Len(x) = 0 THEN XZero
    ELSE XAdd(XSum(SubSeq(x, 1, Len(x) - 1)), x[Len(x)])

\* a variant that leaves the first element out of the mean
np_mean_tail(x) == XDivInt(XSum(Tail(x)), Len(x))

\* np.mean of a non-empty array
np_mean(x) == XDivInt(XSum(x), Len(x))

\* np.sqrt: the root of a finite x >= 0 is kept as the number whose square
\* is x
np_sqrt(x) ==
    CASE x.k = "fin" /\ XSign(x) >= 0 -> [k |-> "fin", sq |-> x]
      [] x.k = "pinf" -> XPInf
      [] OTHER -> XNaN

\* a variant with the population denominator, whatever ddof
np_std_population(x, ddof) ==
    LET m == np_mean(x)
        sq == [i \in 1..Len(x) |-> XSquare(XSub(x[i], m))]
    IN  np_sqrt(XDivInt(XSum(sq), Len(x)))

\* np.std(x, ddof=ddof) of an array longer than ddof
np_std(x, ddof) ==
    LET m == np_mean(x)
        sq == [i \in 1..Len(x) |-> XSquare(XSub(x[i], m))]
    IN  np_sqrt(XDivInt(XSum(sq), Len(x) - ddof))

\* np.minimum(0.0, x), element by element; NaN propagates
np_minimum_zero(x) ==
    [i \in 1..Len(x) |->
        CASE x[i].k = "nan" -> XNaN
          [] x[i].k = "pinf" -> XZero
          [] x[i].k = "ninf" -> XNInf
          [] OTHER -> IF XSign(x[i]) < 0 THEN x[i] ELSE XZero]

\* root == 0.0
RootIsZero(root) == root.sq = XZero

\* sqrt(TRADING_DAYS_PER_YEAR) * mean / dev for finite operands, dev # 0: the
\* quotient of irrationals is kept as its operands
annualised_ratio(mean, dev) ==
    IF mean = XZero
    THEN QZero
    ELSE [k |-> "fin", sqrt |-> TRADING_DAYS_PER_YEAR,
          mean |-> mean, dev |-> dev]

\* std * sqrt(TRADING_DAYS_PER_YEAR) for a finite std
annualised_std(std) ==
    IF RootIsZero(std)
    THEN QZero
    ELSE [k |-> "fin", sqrt |-> TRADING_DAYS_PER_YEAR, std |-> std]

\* the per-period rate of an annual rate: the polynomial p, of rate a
_annual_to_periodic_rate(annual_rate, periods_per_year) ==
    IF ~(QIsFinite(annual_rate) /\ QIsFinite(periods_per_year))
    THEN XZero
    ELSE IF QLe(periods_per_year, QZero)
    THEN XZero
    ELSE IF QLe(annual_rate, Q(-1, 1))
    THEN XZero
    ELSE X(QZero, IF annual_rate = QZero THEN QZero ELSE QOne, QZero,
           annual_rate)

\* r - rf_periodic, element by element
excess_returns(r, rf_periodic) ==
    [i \in 1..Len(r) |-> XSub(XOf(r[i]), rf_periodic)]

\* a variant that answers a zero deviation with the sign of the mean
calculate_sharpe_ratio_signed(returns, risk_free_rate) ==
    LET arr == _to_1d_float_array(returns)
    IN  IF arr.k = "raise"
        THEN arr
        ELSE LET r == arr.val
             IN  IF Len(r) < 2
                 THEN Returns(QZero)
                 ELSE
    LET rf_periodic == _annual_to_periodic_rate(
                           risk_free_rate, Q(TRADING_DAYS_PER_YEAR, 1))
        excess == excess_returns(r, rf_periodic)
        mean_excess == np_mean(excess)
        std_excess == np_std(excess, 1)
    IN  IF ~(XIsFinite(mean_excess) /\ XIsFinite(std_excess))
        THEN Returns(QZero)
        ELSE IF RootIsZero(std_excess)
        THEN Returns(IF XSign(mean_excess) > 0 THEN QPInf
                     ELSE IF XSign(mean_excess) < 0 THEN QNInf ELSE QZero)
        ELSE Returns(annualised_ratio(mean_excess, std_excess))

calculate_sharpe_ratio(returns, risk_free_rate) ==
    LET arr == _to_1d_float_array(returns)
    IN  IF arr.k = "raise"
        THEN arr
        ELSE LET r == arr.val
             IN  IF Len(r) < 2
                 THEN Returns(QZero)
                 ELSE
    LET rf_periodic == _annual_to_periodic_rate(
                           risk_free_rate, Q(TRADING_DAYS_PER_YEAR, 1))
        excess == excess_returns(r, rf_periodic)
        mean_excess == np_mean(excess)
        std_excess == np_std(excess, 1)
    IN  IF ~(XIsFinite(mean_excess) /\ XIsFinite(std_excess))
        THEN Returns(QZero)
        ELSE IF RootIsZero(std_excess)
        THEN Returns(IF XSign(mean_excess) > 0 THEN QPInf ELSE QZero)
        ELSE Returns(annualised_ratio(mean_excess, std_excess))

\* a variant without the insufficient-data guard
calculate_sortino_ratio_unguarded(returns, risk_free_rate) ==
    LET arr == _to_1d_float_array(returns)
    IN  IF arr.k = "raise"
        THEN arr
        ELSE LET r == arr.val
             IN  IF Len(r) < 1
                 THEN Returns(QZero)
                 ELSE
    LET rf_periodic == _annual_to_periodic_rate(
                           risk_free_rate, Q(TRADING_DAYS_PER_YEAR, 1))
        excess == excess_returns(r, rf_periodic)
        mean_excess == np_mean(excess)
        downside == np_minimum_zero(excess)
        downside_dev == np_sqrt(np_mean(
                            [i \in 1..Len(r) |-> XSquare(downside[i])]))
    IN  IF ~(XIsFinite(mean_excess) /\ XIsFinite(downside_dev))
        THEN Returns(QZero)
        ELSE IF RootIsZero(downside_dev)
        THEN Returns(IF XSign(mean_excess) > 0 THEN QPInf ELSE QZero)
        ELSE Returns(annualised_ratio(mean_excess, downside_dev))

calculate_sortino_ratio(returns, risk_free_rate) ==
    LET arr == _to_1d_float_array(returns)
    IN  IF arr.k = "raise"
        THEN arr
        ELSE LET r == arr.val
             IN  IF Len(r) < 2
                 THEN Returns(QZero)
                 ELSE
    LET rf_periodic == _annual_to_periodic_rate(
                           risk_free_rate, Q(TRADING_DAYS_PER_YEAR, 1))
        excess == excess_returns(r, rf_periodic)
        mean_excess == np_mean(excess)
        downside == np_minimum_zero(excess)
        downside_dev == np_sqrt(np_mean(
                            [i \in 1..Len(r) |-> XSquare(downside[i])]))
    IN  IF ~(XIsFinite(mean_excess) /\ XIsFinite(downside_dev))
        THEN Returns(QZero)
        ELSE IF RootIsZero(downside_dev)
        THEN Returns(IF XSign(mean_excess) > 0 THEN QPInf ELSE QZero)
        ELSE Returns(annualised_ratio(mean_excess, downside_dev))

calculate_volatility(returns) ==
    LET arr == _to_1d_float_array(returns)
    IN  IF arr.k = "raise"
        THEN arr
        ELSE LET r == arr.val
             IN  IF Len(r) < 2
                 THEN Returns(QZero)
                 ELSE LET std == np_std([i \in 1..Len(r) |-> XOf(r[i])], 1)
                      IN  IF ~XIsFinite(std)
                          THEN Returns(QZero)
                          ELSE Returns(annualised_std(std))

\* the range of a float (IEEE double): a power of 2^FloatMaxExp or more is
\* out of range
FloatMaxExp == 1024

RECURSIVE IPow(_, _)
IPow(b, e) == IF e = 0 THEN 1 ELSE b * IPow(b, e - 1)

\* base ** exponent >= 2^FloatMaxExp, for finite base > 0 and exponent > 0:
\* with exponent / FloatMaxExp = m / j in lowest terms this is
\* base^m >= 2^j.  The bases of the model are below 2^30, and m = 1
\* whenever j > 30.
pow_overflows(base, exponent) ==
    LET t == QDiv(exponent, Q(FloatMaxExp, 1))
    IN  /\ t.d <= 30
        /\ IPow(base.n, t.n) >= IPow(2, t.d) * IPow(base.d, t.n)

\* base ** exponent - 1.0 for finite base > 0 and exponent > 0: exact when
\* the power is rational at sight, else kept as its operands; the float
\* power raises OverflowError out of range
pow_minus_one(base, exponent) ==
    IF pow_overflows(base, exponent)
    THEN Raises("OverflowError")
    ELSE IF base = QOne
    THEN Returns(QZero)
    ELSE IF exponent = QOne
    THEN Returns(QSub(base, QOne))
    ELSE Returns([k |-> "fin", base |-> base, exp |-> exponent, minus |-> 1])

calculate_cagr(start_value, end_value, years) ==
    IF ~(QIsFinite(start_value) /\ QIsFinite(end_value) /\ QIsFinite(years))
    THEN Returns(QZero)
    ELSE IF QLe(start_value, QZero) \/ QLe(end_value, QZero)
            \/ QLe(years, QZero)
    THEN Returns(QZero)
    ELSE pow_minus_one(QDiv(end_value, start_value), QDiv(QOne, years))

(***************************************************************************)
(* ef_tracker.py: the EmergencyFundTracker object.  Amounts are Q-numbers; *)
(* the dates of the history entries and of the file are left out.          *)
(***************************************************************************)
DEFAULT_TARGET_MONTHS == 6

DEFAULT_MONTHLY_EXPENSES == 6000000

\* int(x) of a finite number: towards zero
int(x) == IF x.n >= 0 THEN x.n \div x.d ELSE -((-x.n) \div x.d)

\* round(x, ndigits) with ndigits decimals: to the nearest, ties to even
round(x, ndigits) ==
    IF x.k # "fin"
    THEN x
    ELSE LET scale == IF ndigits = 2 THEN 100 ELSE 10
             m == x.n * scale
             q == m \div x.d
             r == m - q * x.d
         IN  IF 2 * r > x.d \/ (2 * r = x.d /\ q % 2 = 1)
             THEN Q(q + 1, scale)
             ELSE Q(q, scale)

\* a float times 100
times_100(x) == IF x.k = "fin" THEN QMul(x, Q(100, 1)) ELSE x

\* Python's min(a, b): b if b < a else a
min(a, b) == IF QLt(b, a) THEN b ELSE a

\* the object after __init__ with no readable data file
EmergencyFundTracker ==
    [target_months |-> DEFAULT_TARGET_MONTHS,
     monthly_expenses |-> Q(DEFAULT_MONTHLY_EXPENSES, 1),
     current_balance |-> QZero,
     history |-> <<>>,
     file |-> None]

target_amount(self) == QMul(Q(self.target_months, 1), self.monthly_expenses)

months_covered(self) ==
    IF QLe(self.monthly_expenses, QZero)
    THEN QZero
    ELSE QDiv(self.current_balance, self.monthly_expenses)

progress_percent(self) ==
    IF QLe(target_amount(self), QZero)
    THEN QZero
    ELSE min(Q(100, 1),
             times_100(QDiv(self.current_balance, target_amount(self))))

current_phase(self) ==
    IF QLe(Q(self.target_months, 1), months_covered(self)) THEN 2 ELSE 1

is_complete(self) == QLe(target_amount(self), self.current_balance)

\* save(): the data written to the file
save(self) ==
    [self EXCEPT !.file =
        [target_amount |-> target_amount(self),
         target_months |-> self.target_months,
         monthly_expenses |-> self.monthly_expenses,
         current_balance |-> self.current_balance,
         months_covered |-> months_covered(self),
         progress_percent |-> progress_percent(self),
         phase |-> current_phase(self),
         history |-> self.history]]

\* configure(target_months, monthly_expenses): None leaves a setting alone
configure(self, months, expenses) ==
    LET s1 == IF months = None
              THEN self
              ELSE [self EXCEPT !.target_months = int(months)]
        s2 == IF expenses = None
              THEN s1
              ELSE [s1 EXCEPT !.monthly_expenses = expenses]
    IN  save(s2)

update_balance(self, new_balance, add_to_history) ==
    LET s1 == [self EXCEPT !.current_balance = new_balance]
        s2 == IF add_to_history
              THEN [s1 EXCEPT !.history =
                      Append(@, [balance |-> s1.current_balance,
                                 months_covered |->
                                     round(months_covered(s1), 2)])]
              ELSE s1
    IN  save(s2)

add_contribution(self, amount) ==
    update_balance(self, QAdd(self.current_balance, amount), TRUE)

\* withdraw(amount): the object afterwards and the value returned
withdraw(self, amount) ==
    IF QLt(self.current_balance, amount)
    THEN [self |-> self, val |-> FALSE]
    ELSE [self |-> update_balance(self, QSub(self.current_balance, amount),
                                  TRUE),
          val |-> TRUE]

(***************************************************************************)
(* fx_fetcher.py: the USD/IDR rate with its cache.  Times are seconds of   *)
(* datetime.now(); what a source answers is an input of the call.          *)
(***************************************************************************)
CACHE_TTL_SECONDS == 300

FALLBACK_USD_IDR_RATE == Q(15900, 1)

\* the truth value Python gives a number or None
truthy(x) == x # None /\ x # QZero

\* Python's a or b
or(a, b) == IF truthy(a) THEN a ELSE b

\* rate and rate > 0
positive(rate) == truthy(rate) /\ QLt(QZero, rate)

\* _get_cached(key): the value returned and the cache afterwards
_get_cached(cache, key, clock) ==
    IF key \in DOMAIN cache
    THEN IF clock - cache[key].timestamp < CACHE_TTL_SECONDS
         THEN [val |-> cache[key].value, cache |-> cache]
         ELSE [val |-> None,
               cache |-> [k \in DOMAIN cache \ {key} |-> cache[k]]]
    ELSE [val |-> None, cache |-> cache]

_set_cached(cache, key, value, clock) ==
    [k \in DOMAIN cache \cup {key} |->
        IF k = key THEN [value |-> value, timestamp |-> clock] ELSE cache[k]]

\* _fetch_from_yahoo(pair) for what Yahoo answers: an exception, or the
\* ticker's info and the last close of its history (None: no history)
_fetch_from_yahoo(answer) ==
    IF answer.k = "raise"
    THEN None
    ELSE LET rate == or(answer.regularMarketPrice, answer.previousClose)
         IN  IF positive(rate) THEN rate
             ELSE IF answer.close # None THEN answer.close
             ELSE None

\* _fetch_from_coingecko_proxy() for what CoinGecko answers: an exception
\* (also an HTTP error status), or the prices of tether (None: not given)
_fetch_from_coingecko_proxy(answer) ==
    IF answer.k = "raise"
    THEN None
    ELSE LET usd_price == IF answer.usd = None THEN QOne ELSE answer.usd
             idr_price == answer.idr
         IN  IF truthy(idr_price) /\ positive(usd_price)
             THEN QDiv(idr_price, usd_price)
             ELSE None

\* the sources get_usd_idr_rate asks when it has to fetch
sources_asked(yahoo) ==
    IF positive(_fetch_from_yahoo(yahoo))
    THEN <<"yahoo">>
    ELSE <<"yahoo", "coingecko">>

\* lines 143-172 of get_usd_idr_rate: the result built at time clock
fetch_usd_idr_rate(yahoo, coingecko, clock) ==
    LET y == _fetch_from_yahoo(yahoo)
        rate == IF positive(y) THEN y
                ELSE _fetch_from_coingecko_proxy(coingecko)
        source == IF positive(y) THEN "yahoo"
                  ELSE IF positive(rate) THEN "coingecko" ELSE "fallback"
        failed == rate = None \/ QLe(rate, QZero)
    IN  [rate |-> round(IF failed THEN FALLBACK_USD_IDR_RATE ELSE rate, 2),
         source |-> IF failed THEN "fallback" ELSE source,
         last_updated |-> clock,
         is_fallback |-> source = "fallback",
         pair |-> "USD/IDR"]

\* a variant that does not look at the age of the entry
get_usd_idr_rate_no_expiry(cache, clock, yahoo, coingecko, elapsed) ==
    IF "fx:USDIDR" \in DOMAIN cache
    THEN [val |-> cache["fx:USDIDR"].value, cache |-> cache,
          contacted |-> <<>>, clock |-> clock]
    ELSE LET res == fetch_usd_idr_rate(yahoo, coingecko, clock + elapsed)
         IN  [val |-> res,
              cache |-> _set_cached(cache, "fx:USDIDR", res, clock + elapsed),
              contacted |-> sources_asked(yahoo),
              clock |-> clock + elapsed]

\* get_usd_idr_rate() called at time clock, a fetch taking elapsed seconds:
\* the result, the cache, the sources asked and the time afterwards
get_usd_idr_rate(cache, clock, yahoo, coingecko, elapsed) ==
    LET cached == _get_cached(cache, "fx:USDIDR", clock)
    IN  IF cached.val # None
        THEN [val |-> cached.val, cache |-> cached.cache,
              contacted |-> <<>>, clock |-> clock]
        ELSE LET res == fetch_usd_idr_rate(yahoo, coingecko, clock + elapsed)
             IN  [val |-> res,
                  cache |-> _set_cached(cached.cache, "fx:USDIDR", res,
                                        clock + elapsed),
                  contacted |-> sources_asked(yahoo),
                  clock |-> clock + elapsed]

(***************************************************************************)
(* The calls of the model: bounded argument sets.                          *)
(***************************************************************************)
MaxNum == 5

MaxDen == 4

MaxPhase == 3

MaxFine == 2

MaxCoarse == 2

MaxLen == 4

MaxVal == 3

\* float arguments: the rationals n/d on a small grid, and the IEEE specials
QSpecials == {QNaN, QPInf, QNInf}

QInputs == {Q(n, d) : n \in -1..MaxNum, d \in 1..MaxDen} \cup QSpecials

KellyCalls ==
    {[op |-> "kelly_criterion", win_rate |-> p, win_loss_ratio |-> b] :
        p \in QInputs, b \in QInputs}

PositionCalls ==
    {[op |-> "calculate_position_size", portfolio_value |-> pv,
      kelly_fraction |-> kf, max_allocation |-> cap] :
        pv \in {Q(-1, 1), Q(0, 1), Q(1, 1), Q(100000, 1)} \cup QSpecials,
        kf \in QInputs, cap \in QInputs}

DetectCalls ==
    {[op |-> "detect_phase", ef_balance |-> b, ef_target |-> t] :
        b \in QInputs, t \in QInputs}

TargetCalls ==
    {[op |-> "get_allocation_target", phase |-> ph] : ph \in 0..MaxPhase}

\* weight mappings over the asset labels: a current weight is 0.10 less a few
\* epsilons, or NaN; a target weight is a multiple of 0.05
Assets == {AssetOrder[i] : i \in 1..Len(AssetOrder)}

CurrentWeights == {W(10, -f) : f \in 0..MaxFine} \cup {WNaN}

TargetWeights == {W(5 * i, 0) : i \in 1..MaxCoarse}

Mappings(weights) == UNION {[S -> weights] : S \in SUBSET Assets}

Thresholds == {None, WNaN, W(-5, 0), W(5, 0)}

PortfolioValues ==
    {None, Q(-1, 1), Q(0, 1), Q(1, 1), Q(2, 1), Q(100000, 1)} \cup QSpecials

DriftCalls ==
    {[op |-> "check_allocation_drift", current |-> c, target |-> t,
      threshold |-> th] :
        c \in Mappings(CurrentWeights), t \in Mappings(TargetWeights),
        th \in Thresholds}

\* a portfolio worth 20 epsilons (2e-11 currency units)
TinyValue == [k |-> "fin", n |-> 20, d |-> 1, unit |-> "epsilon"]

TradeCalls ==
    {[op |-> "calculate_rebalance_trades", portfolio_value |-> pv,
      current |-> c, target |-> t] :
        pv \in PortfolioValues,
        c \in Mappings(CurrentWeights), t \in Mappings(TargetWeights)}
    \cup {[op |-> "calculate_rebalance_trades", portfolio_value |-> TinyValue,
           current |-> c, target |-> t] :
             c \in Mappings({W(10, 0)}), t \in Mappings(TargetWeights)}

\* value series: whole values -1 .. MaxVal, with at most one element that is
\* an IEEE special, None or a text
SeriesValues == {Q(n, 1) : n \in -1..MaxVal}

SeriesOdd == QSpecials \cup {None, NotANumber}

Series ==
    UNION {{s \in [1..len -> SeriesValues \cup SeriesOdd] :
               Cardinality({i \in 1..len : s[i] \in SeriesOdd}) <= 1} :
           len \in 0..MaxLen}

DrawdownCalls == {[op |-> "calculate_max_drawdown", values |-> s] : s \in Series}

\* return series: returns of whole tenths, with at most one element that is
\* an IEEE special, None or a text; annual risk-free rates
MaxRet == 1

MaxRetLen == 3

ReturnValues == {Q(n, 10) : n \in -MaxRet..MaxRet}

ReturnSeries ==
    UNION {{s \in [1..len -> ReturnValues \cup SeriesOdd] :
               Cardinality({i \in 1..len : s[i] \in SeriesOdd}) <= 1} :
           len \in 0..MaxRetLen}

RiskFreeRates == {Q(1, 20), QZero, Q(-1, 20), Q(-1, 1), QNaN, QPInf}

SharpeCalls ==
    {[op |-> "calculate_sharpe_ratio", returns |-> s, risk_free_rate |-> rf] :
        s \in ReturnSeries, rf \in RiskFreeRates}

SortinoCalls ==
    {[op |-> "calculate_sortino_ratio", returns |-> s, risk_free_rate |-> rf] :
        s \in ReturnSeries, rf \in RiskFreeRates}

VolatilityCalls ==
    {[op |-> "calculate_volatility", returns |-> s] : s \in ReturnSeries}

\* growth: whole values, and durations down to 1/1024 of a year
Durations ==
    {Q(1, FloatMaxExp), Q(1, 2), Q(-1, 1), Q(0, 1), Q(1, 1), Q(2, 1)}

CagrCalls ==
    {[op |-> "calculate_cagr", start_value |-> s, end_value |-> e,
      years |-> y] :
        s \in SeriesValues \cup QSpecials, e \in SeriesValues \cup QSpecials,
        y \in Durations \cup QSpecials}

\* the calls of a session: every phase, and one call of each other
\* calculator
SessionCalls ==
    TargetCalls \cup
    {[op |-> "kelly_criterion", win_rate |-> Q(3, 4),
      win_loss_ratio |-> QOne],
     [op |-> "calculate_position_size", portfolio_value |-> Q(100000, 1),
      kelly_fraction |-> QHalf, max_allocation |-> Q(1, 4)],
     [op |-> "detect_phase", ef_balance |-> QOne, ef_target |-> Q(2, 1)],
     [op |-> "check_allocation_drift", current |-> [stocks |-> W(10, 0)],
      target |-> [stocks |-> W(5, 0), bonds |-> W(10, 0)],
      threshold |-> None],
     [op |-> "calculate_rebalance_trades", portfolio_value |-> QOne,
      current |-> [stocks |-> W(10, 0)],
      target |-> [stocks |-> W(5, 0), bonds |-> W(10, 0)]],
     [op |-> "calculate_max_drawdown",
      values |-> <<Q(2, 1), QOne, Q(3, 1)>>],
     [op |-> "calculate_sharpe_ratio",
      returns |-> <<Q(1, 10), Q(-1, 10)>>, risk_free_rate |-> Q(1, 20)],
     [op |-> "calculate_sortino_ratio",
      returns |-> <<Q(1, 10), Q(-1, 10)>>, risk_free_rate |-> Q(1, 20)],
     [op |-> "calculate_volatility", returns |-> <<Q(1, 10), Q(-1, 10)>>],
     [op |-> "calculate_cagr", start_value |-> QOne,
      end_value |-> Q(2, 1), years |-> Q(2, 1)]}

(***************************************************************************)
(* The state machine: a call is made (Init) and returns (its action).      *)
(***************************************************************************)
\* a call returns v, held by the caller as the object obj
ReturnObject(v, obj) ==
    /\ pc = "ready"
    /\ pc' = "done"
    /\ result' = v
    /\ shared' = obj
    /\ first' = IF first.k = "none"
                THEN [k |-> "seen", call |-> call, result |-> v,
                      changed |-> FALSE]
                ELSE first
    /\ UNCHANGED <<call, globals, services>>

Return(v) == ReturnObject(v, "new")

CallKellyCriterion ==
    /\ call.op = "kelly_criterion"
    /\ Return(Returns(kelly_criterion(call.win_rate, call.win_loss_ratio)))

CallPositionSize ==
    /\ call.op = "calculate_position_size"
    /\ Return(Returns(calculate_position_size(call.portfolio_value,
                                              call.kelly_fraction,
                                              call.max_allocation)))

CallDetectPhase ==
    /\ call.op = "detect_phase"
    /\ Return(Returns(detect_phase(call.ef_balance, call.ef_target)))

CallAllocationTarget ==
    /\ call.op = "get_allocation_target"
    /\ ReturnObject(get_allocation_target(call.phase),
                    returned_object(call.phase))

CallAllocationDrift ==
    /\ call.op = "check_allocation_drift"
    /\ Return(Returns(check_allocation_drift(call.current, call.target,
                                             call.threshold)))

CallRebalanceTrades ==
    /\ call.op = "calculate_rebalance_trades"
    /\ Return(Returns(calculate_rebalance_trades(call.portfolio_value,
                                                 call.current, call.target)))

CallMaxDrawdown ==
    /\ call.op = "calculate_max_drawdown"
    /\ Return(calculate_max_drawdown(call.values))

CallSharpeRatio ==
    /\ call.op = "calculate_sharpe_ratio"
    /\ Return(calculate_sharpe_ratio(call.returns, call.risk_free_rate))

CallSortinoRatio ==
    /\ call.op = "calculate_sortino_ratio"
    /\ Return(calculate_sortino_ratio(call.returns, call.risk_free_rate))

CallVolatility ==
    /\ call.op = "calculate_volatility"
    /\ Return(calculate_volatility(call.returns))

CallCagr ==
    /\ call.op = "calculate_cagr"
    /\ Return(calculate_cagr(call.start_value, call.end_value, call.years))

\* the caller makes a further call
NextCall ==
    /\ pc \in {"done", "changed"}
    /\ pc' = "ready"
    /\ call' \in SessionCalls
    /\ result' = None
    /\ shared' = "new"
    /\ UNCHANGED <<globals, first, services>>

\* the caller changes the mapping it got from get_allocation_target: it
\* sets an item to 0.0 or deletes it.  The same object changes under every
\* name it has.
ChangeResult ==
    /\ pc = "done"
    /\ call.op = "get_allocation_target"
    /\ result.k = "return"
    /\ \E a \in DOMAIN result.val :
         \E d \in {[result.val EXCEPT ![a] = WZero],
                   [b \in DOMAIN result.val \ {a} |-> result.val[b]]} :
            /\ result' = Returns(d)
            /\ globals' = IF shared = "new"
                          THEN globals
                          ELSE [globals EXCEPT ![shared] = d]
    /\ pc' = "changed"
    /\ first' = IF first.call = call
                THEN [first EXCEPT !.changed = TRUE]
                ELSE first
    /\ UNCHANGED <<call, shared, services>>

InitWith(calls) ==
    /\ call \in calls
    /\ result = None
    /\ pc = "ready"
    /\ globals = [_PHASE_1_TARGET |-> _PHASE_1_TARGET,
                  _PHASE_2_TARGET |-> _PHASE_2_TARGET]
    /\ shared = "new"
    /\ first = None
    /\ tracker = EmergencyFundTracker
    /\ now = 0
    /\ _cache = [key \in {} |-> None]
    /\ contacted = <<>>

\* position_sizer.py
InitSizer == InitWith(KellyCalls \cup PositionCalls)

NextSizer == CallKellyCriterion \/ CallPositionSize

SpecSizer == InitSizer /\ [][NextSizer]_vars

\* phase_detector.py
InitPhase == InitWith(DetectCalls \cup TargetCalls)

NextPhase == CallDetectPhase \/ CallAllocationTarget

SpecPhase == InitPhase /\ [][NextPhase]_vars

\* rebalancer.py
InitRebalancer == InitWith(DriftCalls \cup TradeCalls)

NextRebalancer == CallAllocationDrift \/ CallRebalanceTrades

SpecRebalancer == InitRebalancer /\ [][NextRebalancer]_vars

\* risk_metrics.py
InitRisk ==
    \/ InitWith(DrawdownCalls)
    \/ InitWith(SharpeCalls)
    \/ InitWith(SortinoCalls)
    \/ InitWith(VolatilityCalls)
    \/ InitWith(CagrCalls)

NextRisk ==
    \/ CallMaxDrawdown
    \/ CallSharpeRatio
    \/ CallSortinoRatio
    \/ CallVolatility
    \/ CallCagr

SpecRisk == InitRisk /\ [][NextRisk]_vars

\* all calculators
Init == InitSizer \/ InitPhase \/ InitRebalancer \/ InitRisk

Next ==
    \/ CallKellyCriterion
    \/ CallPositionSize
    \/ CallDetectPhase
    \/ CallAllocationTarget
    \/ CallAllocationDrift
    \/ CallRebalanceTrades
    \/ CallMaxDrawdown
    \/ CallSharpeRatio
    \/ CallSortinoRatio
    \/ CallVolatility
    \/ CallCagr

Spec == Init /\ [][Next]_vars

\* a session: calls of every calculator, one after another
InitSession == InitWith(SessionCalls)

NextSession == Next \/ NextCall \/ ChangeResult

SpecSession == InitSession /\ [][NextSession]_vars

(***************************************************************************)
(* The tracker: an object is constructed, then its methods are called.     *)
(***************************************************************************)
\* the longest history of the model
MaxHistory == 1

\* amounts of money: small whole amounts (the targets of the model are
\* configured to match) and the IEEE specials +inf and NaN
TrackerAmounts == {Q(-1, 1), QZero, QOne, QPInf, QNaN}

\* target_months arguments: None, whole months and one and a half months
TrackerMonths == {None, QZero, Q(3, 2), Q(2, 1)}

\* monthly_expenses arguments: None and finite amounts
TrackerExpenses == {None, Q(-1, 1), QZero, QOne}

\* a method of the tracker returns v and leaves the object as self
TrackerReturn(c, self, v) ==
    /\ call' = c
    /\ result' = Returns(v)
    /\ tracker' = self
    /\ pc' = "done"
    /\ UNCHANGED <<globals, shared, first, now, _cache, contacted>>

CallConfigure ==
    \E months \in TrackerMonths, expenses \in TrackerExpenses :
        TrackerReturn([op |-> "configure", target_months |-> months,
                       monthly_expenses |-> expenses],
                      configure(tracker, months, expenses), None)

CallUpdateBalance ==
    \E new_balance \in TrackerAmounts, add_to_history \in BOOLEAN :
        /\ add_to_history => Len(tracker.history) < MaxHistory
        /\ TrackerReturn([op |-> "update_balance",
                          new_balance |-> new_balance,
                          add_to_history |-> add_to_history],
                         update_balance(tracker, new_balance, add_to_history),
                         None)

CallAddContribution ==
    \E amount \in TrackerAmounts :
        /\ Len(tracker.history) < MaxHistory
        /\ TrackerReturn([op |-> "add_contribution", amount |-> amount],
                         add_contribution(tracker, amount), None)

CallWithdraw ==
    \E amount \in TrackerAmounts :
        LET out == withdraw(tracker, amount)
        IN  /\ Len(out.self.history) <= MaxHistory
            /\ TrackerReturn([op |-> "withdraw", amount |-> amount],
                             out.self, out.val)

InitTracker ==
    /\ call = [op |-> "__init__"]
    /\ result = None
    /\ pc = "done"
    /\ globals = [_PHASE_1_TARGET |-> _PHASE_1_TARGET,
                  _PHASE_2_TARGET |-> _PHASE_2_TARGET]
    /\ shared = "new"
    /\ first = None
    /\ tracker = EmergencyFundTracker
    /\ now = 0
    /\ _cache = [key \in {} |-> None]
    /\ contacted = <<>>

NextTracker ==
    \/ CallConfigure
    \/ CallUpdateBalance
    \/ CallAddContribution
    \/ CallWithdraw

SpecTracker == InitTracker /\ [][NextTracker]_vars
(***************************************************************************)
(* The fetcher: the module is imported, then get_usd_idr_rate is called    *)
(* while time passes.                                                      *)
(***************************************************************************)
\* the clock advances in steps of TickSeconds up to MaxClock seconds
TickSeconds == 100

MaxClock == 700

\* what Yahoo answers: an exception, or prices (None: not given) and the
\* last close of the history (None: empty history; NaN: no value yet)
YahooAnswers ==
    {[k |-> "raise"]}
    \cup [k : {"ok"},
          regularMarketPrice : {None, QZero, Q(15900, 1)},
          previousClose : {None, Q(16000, 1)},
          close : {None, Q(127201, 8), QNaN}]

\* what CoinGecko answers: an exception, or the prices of tether
CoinGeckoAnswers ==
    {[k |-> "raise"]}
    \cup [k : {"ok"},
          usd : {None, QOne, QZero},
          idr : {None, Q(15800, 1), QNaN}]

\* get_usd_idr_rate() is called; a source that is not asked gives no answer
\* (None), and a call served from the cache takes no time
CallGetUsdIdrRate ==
    LET served == _get_cached(_cache, "fx:USDIDR", now).val # None
    IN  \E yahoo \in IF served THEN {None} ELSE YahooAnswers :
        \E coingecko \in IF served \/ sources_asked(yahoo) = <<"yahoo">>
                         THEN {None}
                         ELSE CoinGeckoAnswers :
        \E elapsed \in IF served THEN {0} ELSE {0, TickSeconds} :
            LET out == get_usd_idr_rate(_cache, now, yahoo, coingecko,
                                        elapsed)
            IN  /\ out.clock <= MaxClock
                /\ call' = [op |-> "get_usd_idr_rate", yahoo |-> yahoo,
                            coingecko |-> coingecko]
                /\ result' = Returns(out.val)
                /\ _cache' = out.cache
                /\ contacted' = out.contacted
                /\ now' = out.clock
                /\ pc' = "done"
                /\ UNCHANGED <<globals, shared, first, tracker>>

\* time passes between two calls
Tick ==
    /\ now + TickSeconds <= MaxClock
    /\ now' = now + TickSeconds
    /\ pc' = "ready"
    /\ UNCHANGED <<call, result, globals, shared, first, tracker, _cache,
                   contacted>>

InitFetcher ==
    /\ call = [op |-> "import"]
    /\ result = None
    /\ pc = "ready"
    /\ globals = [_PHASE_1_TARGET |-> _PHASE_1_TARGET,
                  _PHASE_2_TARGET |-> _PHASE_2_TARGET]
    /\ shared = "new"
    /\ first = None
    /\ tracker = EmergencyFundTracker
    /\ now = 0
    /\ _cache = [key \in {} |-> None]
    /\ contacted = <<>>

NextFetcher == CallGetUsdIdrRate \/ Tick

SpecFetcher == InitFetcher /\ [][NextFetcher]_vars

\* position_sizer.py, the two functions in sequence: the fraction returned
\* by kelly_criterion is passed on as kelly_fraction
DEFAULT_MAX_ALLOCATION == Q(1, 4)

SizingValues == {Q(1, 2), Q(1, 1), Q(100000, 1), QPInf}

SizingCaps ==
    {DEFAULT_MAX_ALLOCATION, Q(1, 2), Q(3, 4), Q(1, 1), Q(2, 1), QPInf}

SizeFromKelly ==
    /\ pc = "done"
    /\ call.op = "kelly_criterion"
    /\ result.k = "return"
    /\ \E pv \in SizingValues, m \in SizingCaps :
          call' = [op |-> "calculate_position_size", portfolio_value |-> pv,
                   kelly_fraction |-> result.val, max_allocation |-> m]
    /\ pc' = "ready"
    /\ result' = None
    /\ UNCHANGED <<globals, shared, first, services>>

InitSizing == InitWith(KellyCalls)

NextSizing == CallKellyCriterion \/ SizeFromKelly \/ CallPositionSize

SpecSizing == InitSizing /\ [][NextSizing]_vars

(***************************************************************************)
(* Properties.                                                             *)
(***************************************************************************)
Done(op) == pc = "done" /\ call.op = op

\* the sum of the hundredths of a mapping's weights
RECURSIVE SumHundredths(_)
SumHundredths(m) ==
    IF DOMAIN m = {}
    THEN 0
    ELSE LET a == CHOOSE x \in DOMAIN m : TRUE
         IN  m[a].c + SumHundredths([b \in DOMAIN m \ {a} |-> m[b]])

\* C1: kelly_criterion, for a win_rate p in [0,1] and a win_loss_ratio b > 0,
\* returns r in [0,1] with r = (p - (1-p)/b) / 2 when that is >= 0 and r = 0
\* when it is negative; a zero-edge bet (p*b = 1-p) gives exactly 0.
\* With p = pn/pd and b = bn/bd the full Kelly fraction is
\* (pn*bn - (pd-pn)*bd) / (pd*bn).
C1_KellyHalfFraction ==
    (/\ Done("kelly_criterion")
     /\ QIsFinite(call.win_rate) /\ QIsFinite(call.win_loss_ratio)
     /\ 0 <= call.win_rate.n /\ call.win_rate.n <= call.win_rate.d
     /\ call.win_loss_ratio.n > 0)
    => LET pn == call.win_rate.n
           pd == call.win_rate.d
           bn == call.win_loss_ratio.n
           bd == call.win_loss_ratio.d
           edge == pn * bn - (pd - pn) * bd
           r == result.val
       IN  /\ result.k = "return"
           /\ r.k = "fin" /\ 0 <= r.n /\ r.n <= r.d
           /\ edge >= 0 => r.n * 2 * pd * bn = edge * r.d
           /\ edge <= 0 => r.n = 0

\* a bet with a positive edge and a win rate below 1 has returned
C1_Witness ==
    /\ Done("kelly_criterion")
    /\ call.win_rate = Q(3, 4) /\ call.win_loss_ratio = Q(1, 1)
    /\ result = Returns(Q(1, 4))

\* C2: calculate_position_size, for finite inputs with portfolio_value > 0
\* and max_allocation > 0, returns portfolio_value * clip(kelly_fraction, 0,
\* max_allocation): never more than portfolio_value * max_allocation,
\* portfolio_value * kelly_fraction when 0 <= kelly_fraction <=
\* max_allocation, and 0 for a negative kelly_fraction.
C2_PositionSizeClipped ==
    (/\ Done("calculate_position_size")
     /\ QIsFinite(call.portfolio_value) /\ QIsFinite(call.kelly_fraction)
     /\ QIsFinite(call.max_allocation)
     /\ call.portfolio_value.n > 0 /\ call.max_allocation.n > 0)
    => LET vn == call.portfolio_value.n
           vd == call.portfolio_value.d
           kn == call.kelly_fraction.n
           kd == call.kelly_fraction.d
           cn == call.max_allocation.n
           cd == call.max_allocation.d
           r == result.val
       IN  /\ result.k = "return" /\ r.k = "fin"
           /\ r.n * vd * cd <= vn * cn * r.d
           /\ kn < 0 => r.n = 0
           /\ (0 <= kn /\ kn * cd <= cn * kd) => r.n * vd * kd = vn * kn * r.d
           /\ kn * cd > cn * kd => r.n * vd * cd = vn * cn * r.d

\* position_size(100000, 0.50, max_allocation = 0.25) has returned 25000
C2_Witness ==
    /\ Done("calculate_position_size")
    /\ call.portfolio_value = Q(100000, 1)
    /\ call.kelly_fraction = Q(1, 2) /\ call.max_allocation = Q(1, 4)
    /\ result = Returns(Q(25000, 1))

\* C3: detect_phase returns 1 or 2: 2 whenever the target is <= 0 or an
\* input is not finite; otherwise 1 exactly when balance < target, so a
\* balance equal to the target is phase 2.
C3_DetectPhase ==
    Done("detect_phase")
    => LET b == call.ef_balance
           t == call.ef_target
       IN  /\ result.k = "return" /\ result.val \in {1, 2}
           /\ (b.k # "fin" \/ t.k # "fin") => result.val = 2
           /\ (b.k = "fin" /\ t.k = "fin" /\ t.n <= 0) => result.val = 2
           /\ (b.k = "fin" /\ t.k = "fin" /\ t.n > 0)
              => (result.val = 1 <=> b.n * t.d < t.n * b.d)

\* a balance equal to a positive target has returned phase 2
C3_Witness ==
    /\ Done("detect_phase")
    /\ QIsFinite(call.ef_target) /\ call.ef_target.n > 0
    /\ call.ef_balance = call.ef_target
    /\ result = Returns(2)

\* C4: get_allocation_target returns exactly {ef 0.80, stocks 0.10, crypto
\* 0.10} for phase 1 and {ef 0.20, stocks 0.50, crypto 0.20, bonds 0.10} for
\* phase 2, each summing to 1.0, and raises ValueError for any other phase.
C4_AllocationTarget ==
    Done("get_allocation_target")
    => /\ call.phase = 1
          => /\ result.k = "return"
             /\ DOMAIN result.val = {"ef", "stocks", "crypto"}
             /\ result.val["ef"] = W(80, 0)
             /\ result.val["stocks"] = W(10, 0)
             /\ result.val["crypto"] = W(10, 0)
             /\ SumHundredths(result.val) = 100
       /\ call.phase = 2
          => /\ result.k = "return"
             /\ DOMAIN result.val = {"ef", "stocks", "crypto", "bonds"}
             /\ result.val["ef"] = W(20, 0)
             /\ result.val["stocks"] = W(50, 0)
             /\ result.val["crypto"] = W(20, 0)
             /\ result.val["bonds"] = W(10, 0)
             /\ SumHundredths(result.val) = 100
       /\ call.phase \notin {1, 2} => result = Raises("ValueError")

\* get_allocation_target(3) has raised
C4_Witness ==
    /\ Done("get_allocation_target")
    /\ call.phase = 3
    /\ result.k = "raise"


(***************************************************************************)
(* Rebalancer properties.  The weights and drifts are recomputed here from *)
(* the arguments of the call.                                              *)
(***************************************************************************)
KeyUnion == DOMAIN call.current \cup DOMAIN call.target

WeightIn(m, a) == IF a \in DOMAIN m THEN m[a] ELSE WZero

DriftOf(a) == WSub(WeightIn(call.current, a), WeightIn(call.target, a))

NumericWeights ==
    /\ \A a \in DOMAIN call.current : call.current[a].k # "nan"
    /\ \A a \in DOMAIN call.target : call.target[a].k # "nan"

\* the threshold in force: 0.05 for None, NaN and the infinities
ThresholdInForce ==
    IF call.threshold.k = "fin" THEN call.threshold ELSE W(5, 0)

\* the positions of the records of asset a in the returned list
RecordsOf(a) == {i \in 1..Len(result.val) : result.val[i].asset = a}

\* <<c1, f1>> >= <<c2, f2>> in the lexicographic order
GeLex(c1, f1, c2, f2) == c1 > c2 \/ (c1 = c2 /\ f1 >= f2)

\* C5 as stated: check_allocation_drift returns exactly one record for each
\* key of the union with |current - target| >= threshold and none for any
\* other key (numeric weights; the threshold is 0.05 when None or not finite).
C5_DriftAtLeastThreshold ==
    (Done("check_allocation_drift") /\ NumericWeights)
    => \A a \in Assets :
          Cardinality(RecordsOf(a)) =
             IF a \in KeyUnion /\ WLe(ThresholdInForce, WAbs(DriftOf(a)))
             THEN 1 ELSE 0

\* C5 amended: check_allocation_drift returns exactly one record for each key
\* of the union except those with |current - target| + 1e-12 < max(threshold,
\* 0), and none for any other key: a drift equal to the threshold is
\* included, and so is one up to 1e-12 below it and one that is NaN; the
\* threshold is 0.05 when None or not finite.
C5_DriftWithinEpsilon ==
    Done("check_allocation_drift")
    => \A a \in Assets :
          LET d == WAbs(DriftOf(a))
              t == ThresholdInForce
              floor == IF GeLex(t.c, t.f, 0, 0) THEN t ELSE WZero
              skipped == /\ d.k = "fin"
                         /\ ~GeLex(d.c, d.f + 1, floor.c, floor.f)
          IN  Cardinality(RecordsOf(a)) =
                 IF a \in KeyUnion /\ ~skipped THEN 1 ELSE 0

\* a drift 1e-12 below the threshold 0.05 has been reported
C5_Witness ==
    /\ Done("check_allocation_drift")
    /\ call.threshold = W(5, 0)
    /\ \E i \in 1..Len(result.val) : result.val[i].amount = W(5, -1)

\* C6: every record of check_allocation_drift has drift = current_weight -
\* target_weight (the weights of its asset, 0 for a missing key), amount =
\* |drift|, and action "sell" exactly when drift > 0, "buy" otherwise, also
\* for a drift of 0.
C6_DriftRecord ==
    Done("check_allocation_drift")
    => \A i \in 1..Len(result.val) :
          LET r == result.val[i]
              cw == WeightIn(call.current, r.asset)
              tw == WeightIn(call.target, r.asset)
          IN  /\ r.current_weight = cw /\ r.target_weight = tw
              /\ IF cw.k = "fin" /\ tw.k = "fin"
                 THEN /\ r.drift = W(cw.c - tw.c, cw.f - tw.f)
                      /\ r.amount \in {r.drift, W(-r.drift.c, -r.drift.f)}
                      /\ GeLex(r.amount.c, r.amount.f, 0, 0)
                      /\ r.action = IF GeLex(r.drift.c, r.drift.f, 0, 1)
                                    THEN "sell" ELSE "buy"
                 ELSE r.drift.k = "nan" /\ r.amount.k = "nan" /\ r.action = "buy"

\* a record with a drift of exactly 0 has been returned, as a "buy"
C6_Witness ==
    /\ Done("check_allocation_drift")
    /\ \E i \in 1..Len(result.val) :
          result.val[i].drift = WZero /\ result.val[i].action = "buy"

\* the hundredths and the epsilons of portfolio_value * w, for a weight w and
\* a portfolio_value of whole currency units or of whole epsilons
ValueHundredths(w) ==
    IF "unit" \in DOMAIN call.portfolio_value
    THEN 0
    ELSE call.portfolio_value.n * w.c

ValueEpsilons(w) ==
    IF "unit" \in DOMAIN call.portfolio_value
    THEN (call.portfolio_value.n * w.c) \div 100
    ELSE call.portfolio_value.n * w.f

\* C7: calculate_rebalance_trades with a finite portfolio_value > 0 (and
\* numeric weights) returns exactly one record for each key of the union
\* whose trade_value = portfolio_value * target_weight - portfolio_value *
\* current_weight has a magnitude above 1e-12, and none for other keys; each
\* record has amount = |trade_value| and action "buy" exactly when
\* trade_value > 0, else "sell".
C7_RebalanceTrades ==
    (/\ Done("calculate_rebalance_trades")
     /\ call.portfolio_value.k = "fin" /\ call.portfolio_value.n > 0
     /\ NumericWeights)
    => \A a \in Assets :
          LET cw == WeightIn(call.current, a)
              tw == WeightIn(call.target, a)
              tc == ValueHundredths(tw) - ValueHundredths(cw)
              tf == ValueEpsilons(tw) - ValueEpsilons(cw)
              above == GeLex(tc, tf, 0, 2) \/ GeLex(0, -2, tc, tf)
          IN  /\ Cardinality(RecordsOf(a)) = IF above THEN 1 ELSE 0
              /\ \A i \in RecordsOf(a) :
                    LET r == result.val[i]
                    IN  /\ r.trade_value = W(tc, tf)
                        /\ r.amount = IF GeLex(tc, tf, 0, 0)
                                      THEN W(tc, tf) ELSE W(-tc, -tf)
                        /\ r.action = IF GeLex(tc, tf, 0, 1)
                                      THEN "buy" ELSE "sell"

\* 100000 with stocks at 0.10 against a target of 0.05 has given a stocks
\* sell of 5000
C7_Witness ==
    /\ Done("calculate_rebalance_trades")
    /\ call.portfolio_value = Q(100000, 1)
    /\ \E i \in 1..Len(result.val) :
          /\ result.val[i].asset = "stocks"
          /\ result.val[i].action = "sell"
          /\ result.val[i].amount = W(500000, 0)

\* the position of a label in the sorted order of the labels
LabelRank(a) == CHOOSE i \in 1..Len(AssetOrder) : AssetOrder[i] = a

\* C8: the list of check_allocation_drift is in non-increasing order of
\* |drift| and the list of calculate_rebalance_trades in non-increasing order
\* of amount (numeric weights); records of equal magnitude are in ascending
\* order of their asset label.
C8_SortedDescending ==
    ((Done("check_allocation_drift") \/ Done("calculate_rebalance_trades"))
     /\ NumericWeights)
    => \A i, j \in 1..Len(result.val) :
          i < j =>
             LET x == result.val[i].amount
                 y == result.val[j].amount
             IN  /\ GeLex(x.c, x.f, y.c, y.f)
                 /\ x = y => LabelRank(result.val[i].asset)
                                < LabelRank(result.val[j].asset)

\* three drifts have been returned with the largest, of "ef", ahead of the
\* equal drifts of "bonds" and "stocks"
C8_Witness ==
    /\ Done("check_allocation_drift")
    /\ Len(result.val) = 3
    /\ result.val[1].asset = "ef"
    /\ result.val[2].asset = "bonds"
    /\ result.val[3].asset = "stocks"
    /\ result.val[2].amount = result.val[3].amount


(***************************************************************************)
(* Drawdown properties, for a series of finite whole values.  V(i) is the  *)
(* value at Python index i, P(i) the highest value up to i, and the        *)
(* drawdown at i is the fraction DDNum(i) / DDDen(i).                      *)
(***************************************************************************)
FiniteSeries == \A i \in 1..Len(call.values) : call.values[i].k = "fin"

Indices == 0..(Len(call.values) - 1)

V(i) == call.values[i + 1].n

P(i) == CHOOSE m \in {V(j) : j \in 0..i} : \A j \in 0..i : V(j) <= m

DDNum(i) == IF P(i) > 0 THEN P(i) - V(i) ELSE 0

DDDen(i) == IF P(i) > 0 THEN P(i) ELSE 1

\* drawdown at i >= drawdown at j
DDGe(i, j) == DDNum(i) * DDDen(j) >= DDNum(j) * DDDen(i)

\* C9: for a series of length >= 2, max_dd is the maximum over i of dd_i =
\* 1 - values[i] / P_i (0 when P_i <= 0), trough_idx is the first index that
\* attains it, and peak_idx is the first occurrence of the maximum of
\* values[0..trough_idx].
C9_MaxDrawdown ==
    (Done("calculate_max_drawdown") /\ FiniteSeries /\ Len(call.values) >= 2)
    => /\ result.k = "return"
       /\ LET max_dd == result.val[1]
              peak_idx == result.val[2]
              trough_idx == result.val[3]
          IN  /\ trough_idx \in Indices /\ peak_idx \in Indices
              /\ max_dd.k = "fin"
              /\ max_dd.n * DDDen(trough_idx) = DDNum(trough_idx) * max_dd.d
              /\ \A i \in Indices : DDGe(trough_idx, i)
              /\ \A i \in Indices : DDGe(i, trough_idx) => trough_idx <= i
              /\ peak_idx <= trough_idx
              /\ V(peak_idx) = P(trough_idx)
              /\ \A j \in 0..trough_idx : V(j) = P(trough_idx) => peak_idx <= j

\* the largest drawdown of [2, 1, 3] has been found between the indices 0
\* and 1, although the highest value of the series is at index 2
C9_Witness ==
    /\ Done("calculate_max_drawdown")
    /\ call.values = <<Q(2, 1), Q(1, 1), Q(3, 1)>>
    /\ result = Returns(<<Q(1, 2), 0, 1>>)

\* C10: for a series of length >= 2, peak_idx <= trough_idx; a series that
\* never falls below an earlier value gives max_dd = 0 with peak_idx =
\* trough_idx; and whenever max_dd > 0, peak_idx < trough_idx and
\* values[trough_idx] < values[peak_idx].
C10_PeakBeforeTrough ==
    (Done("calculate_max_drawdown") /\ FiniteSeries /\ Len(call.values) >= 2)
    => /\ result.k = "return"
       /\ LET max_dd == result.val[1]
              peak_idx == result.val[2]
              trough_idx == result.val[3]
          IN  /\ peak_idx <= trough_idx
              /\ (\A i, j \in Indices : i < j => V(i) <= V(j))
                 => (max_dd.n = 0 /\ peak_idx = trough_idx)
              /\ (max_dd.k = "fin" /\ max_dd.n > 0)
                 => /\ peak_idx < trough_idx
                    /\ trough_idx \in Indices
                    /\ V(trough_idx) < V(peak_idx)

\* a positive drawdown has been found from a peak that is not the first value
C10_Witness ==
    /\ Done("calculate_max_drawdown")
    /\ FiniteSeries
    /\ result.k = "return"
    /\ result.val[1].k = "fin" /\ result.val[1].n > 0
    /\ 0 < result.val[2] /\ result.val[2] < result.val[3]

\* C11: calculate_max_drawdown returns (0.0, -1, -1) for an empty series and
\* (0.0, 0, 0) for a series of one number, and raises for neither.
C11_DrawdownShortSeries ==
    (Done("calculate_max_drawdown") /\ Len(call.values) <= 1
        /\ \A i \in 1..Len(call.values) : call.values[i] # NotANumber)
    => /\ result.k = "return"
       /\ result.val[1] = QZero
       /\ result.val[2] = Len(call.values) - 1
       /\ result.val[3] = Len(call.values) - 1

\* the sentinel of the empty series has been returned
C11_Witness ==
    /\ Done("calculate_max_drawdown")
    /\ call.values = << >>
    /\ result = Returns(<<QZero, -1, -1>>)

(***************************************************************************)
(* Ratio properties.  For a series of finite returns, T(i) is the return   *)
(* at position i in tenths, and RateSign the sign of the per-period        *)
(* risk-free rate: that of the annual rate when it is finite and above -1, *)
(* else 0.                                                                 *)
(***************************************************************************)
RatioCall ==
    pc = "done"
    /\ call.op \in {"calculate_sharpe_ratio", "calculate_sortino_ratio"}

FiniteReturns == \A i \in 1..Len(call.returns) : call.returns[i].k = "fin"

NumericReturns == \A i \in 1..Len(call.returns) : call.returns[i] # NotANumber

T(i) == call.returns[i].n * (10 \div call.returns[i].d)

RECURSIVE SumTenths(_)
SumTenths(m) == IF m = 0 THEN 0 ELSE SumTenths(m - 1) + T(m)

RateSign ==
    LET a == call.risk_free_rate
    IN  IF a.k # "fin" \/ a.n <= -a.d THEN 0
        ELSE IF a.n > 0 THEN 1 ELSE IF a.n < 0 THEN -1 ELSE 0

\* mean excess return > 0
MeanExcessPositive ==
    LET total == SumTenths(Len(call.returns))
    IN  total > 0 \/ (total = 0 /\ RateSign < 0)

\* the return at position i is below the per-period risk-free rate
BelowRate(i) == T(i) < 0 \/ (T(i) = 0 /\ RateSign > 0)

ZeroDeviation ==
    IF call.op = "calculate_sharpe_ratio"
    THEN \A i, j \in 1..Len(call.returns) : T(i) = T(j)
    ELSE \A i \in 1..Len(call.returns) : ~BelowRate(i)

C13_InsufficientData ==
    (/\ pc = "done"
     /\ call.op \in {"calculate_sharpe_ratio", "calculate_sortino_ratio",
                     "calculate_volatility"}
     /\ Len(call.returns) < 2
     /\ NumericReturns)
    => result = Returns(QZero)

\* the Sortino ratio of a single positive return, with no risk-free rate, has
\* been answered with 0.0
C13_Witness ==
    /\ Done("calculate_sortino_ratio")
    /\ call.returns = <<Q(1, 10)>>
    /\ call.risk_free_rate = QZero
    /\ result = Returns(QZero)

(***************************************************************************)
(* Growth-rate properties.                                                 *)
(***************************************************************************)
CagrValid ==
    /\ call.start_value.k = "fin" /\ call.start_value.n > 0
    /\ call.end_value.k = "fin" /\ call.end_value.n > 0
    /\ call.years.k = "fin" /\ call.years.n > 0

\* end_value < start_value, for finite values
EndBelowStart ==
    call.end_value.n * call.start_value.d < call.start_value.n * call.end_value.d

EndAboveStart ==
    call.end_value.n * call.start_value.d > call.start_value.n * call.end_value.d

\* (1 + r)^years = end_value / start_value
CompoundsTo(r) ==
    IF "base" \in DOMAIN r
    THEN /\ r.base.n * call.start_value.n * call.end_value.d
              = r.base.d * call.end_value.n * call.start_value.d
         /\ r.exp.n * call.years.n = r.exp.d * call.years.d
    ELSE \/ /\ call.years = QOne
            /\ (r.n + r.d) * call.start_value.n * call.end_value.d
                 = r.d * call.end_value.n * call.start_value.d
         \/ r = QZero /\ ~EndBelowStart /\ ~EndAboveStart

\* the sign of a growth rate: that of base - 1 for base ** exp - 1, exp > 0
CagrSign(r) ==
    IF "base" \in DOMAIN r
    THEN IF r.base.n > r.base.d THEN 1
         ELSE IF r.base.n < r.base.d THEN -1 ELSE 0
    ELSE IF r.n > 0 THEN 1 ELSE IF r.n < 0 THEN -1 ELSE 0

\* C14: calculate_cagr returns 0.0, without raising, whenever start_value <=
\* 0, end_value <= 0, years <= 0 or an input is not finite; for valid inputs
\* the result r satisfies (1 + r)^years = end_value / start_value, so it is
\* negative exactly when end_value < start_value and positive exactly when
\* end_value > start_value.
C14_Cagr ==
    Done("calculate_cagr")
    => IF ~CagrValid
       THEN result = Returns(QZero)
       ELSE /\ result.k = "return"
            /\ CompoundsTo(result.val)
            /\ CagrSign(result.val) < 0 <=> EndBelowStart
            /\ CagrSign(result.val) > 0 <=> EndAboveStart

(***************************************************************************)
(* Input and output properties of all calculators.                         *)
(***************************************************************************)
SeriesOf ==
    IF call.op = "calculate_max_drawdown" THEN call.values ELSE call.returns

\* C15: calculate_sharpe_ratio, calculate_sortino_ratio,
\* calculate_max_drawdown and calculate_volatility fail with ValueError
\* whenever an element of the input is not numeric (None, a text), at every
\* position and length, and return no value then.
C15_NonNumericRaises ==
    (/\ pc = "done"
     /\ call.op \in {"calculate_sharpe_ratio", "calculate_sortino_ratio",
                     "calculate_max_drawdown", "calculate_volatility"}
     /\ \E i \in 1..Len(SeriesOf) : SeriesOf[i] \in {None, NotANumber})
    => result = Raises("ValueError")

AllFinite(records, fields) ==
    \A i \in 1..Len(records) : \A f \in fields : records[i][f].k = "fin"

\* C16: every numeric value returned by kelly_criterion,
\* calculate_position_size, calculate_cagr, calculate_volatility,
\* calculate_max_drawdown, check_allocation_drift (amount, drift, weights)
\* and calculate_rebalance_trades (amount, values) is finite, for all inputs,
\* NaN and infinite numbers and weights included; the only non-finite value
\* any operation returns is the +infinity of Sharpe and Sortino.
C16_FiniteOutputs ==
    (pc = "done" /\ result.k = "return")
    => CASE call.op \in {"kelly_criterion", "calculate_position_size",
                         "calculate_cagr", "calculate_volatility"} ->
                result.val.k = "fin"
         [] call.op = "calculate_max_drawdown" -> result.val[1].k = "fin"
         [] call.op = "check_allocation_drift" ->
                AllFinite(result.val, {"amount", "drift", "current_weight",
                                       "target_weight"})
         [] call.op = "calculate_rebalance_trades" ->
                AllFinite(result.val, {"amount", "current_value",
                                       "target_value", "trade_value"})
         [] call.op \in {"calculate_sharpe_ratio",
                         "calculate_sortino_ratio"} ->
                result.val.k \in {"fin", "pinf"}
         [] OTHER -> TRUE

(***************************************************************************)
(* Degenerate arguments of the sizer and of the rebalancer.                *)
(***************************************************************************)
\* x is not finite, or x <= 0
NonFiniteOrNonPositive(x) == x.k # "fin" \/ x.n <= 0

\* C17: calculate_position_size returns exactly 0.0 whenever portfolio_value
\* is non-finite or <= 0, max_allocation is non-finite or <= 0, or
\* kelly_fraction is non-finite; and its result is never negative.
C17_PositionSizeZero ==
    Done("calculate_position_size")
    => /\ result.k = "return"
       /\ (\/ NonFiniteOrNonPositive(call.portfolio_value)
           \/ NonFiniteOrNonPositive(call.max_allocation)
           \/ call.kelly_fraction.k # "fin")
          => result.val = QZero
       /\ result.val.k = "fin" /\ result.val.n >= 0

\* an infinite kelly_fraction, with a positive portfolio and cap, has got 0.0
C17_Witness ==
    /\ Done("calculate_position_size")
    /\ call.portfolio_value = Q(100000, 1)
    /\ call.kelly_fraction = QPInf
    /\ call.max_allocation = Q(1, 4)
    /\ result = Returns(QZero)

\* C18: kelly_criterion returns exactly 0.0 whenever win_loss_ratio <= 0 or
\* an input is non-finite; a finite win_rate outside [0, 1] is clipped first,
\* so with a win_loss_ratio b > 0 a win_rate > 1 gives the result of
\* win_rate = 1, which is (1 - 0/b) / 2 = 1/2, and a win_rate < 0 gives the
\* result of win_rate = 0, which is max(0, (0 - 1/b) / 2) = 0.
C18_KellyDegenerate ==
    Done("kelly_criterion")
    => LET p == call.win_rate
           b == call.win_loss_ratio
       IN  /\ result.k = "return"
           /\ (p.k # "fin" \/ NonFiniteOrNonPositive(b)) => result.val = QZero
           /\ (p.k = "fin" /\ b.k = "fin" /\ b.n > 0)
              => /\ p.n >= p.d => result.val = Q(1, 2)
                 /\ p.n <= 0 => result.val = QZero

\* a win_rate of 5/4 has given the half Kelly fraction of a certain win
C18_Witness ==
    /\ Done("kelly_criterion")
    /\ call.win_rate = Q(5, 4) /\ call.win_loss_ratio = Q(1, 1)
    /\ result = Returns(Q(1, 2))

\* C19: calculate_rebalance_trades returns the empty list, for all current
\* and target mappings, whenever portfolio_value is non-finite, zero or
\* negative.
C19_NoTradesWithoutValue ==
    (/\ Done("calculate_rebalance_trades")
     /\ call.portfolio_value # None
     /\ NonFiniteOrNonPositive(call.portfolio_value))
    => result = Returns(<<>>)

\* a negative portfolio_value has got no trades although the weights differ
\* from the targets
C19_Witness ==
    /\ Done("calculate_rebalance_trades")
    /\ call.portfolio_value = Q(-1, 1)
    /\ call.current = [stocks |-> W(10, 0)]
    /\ call.target = [stocks |-> W(5, 0)]
    /\ result = Returns(<<>>)

(***************************************************************************)
(* Sessions.                                                               *)
(***************************************************************************)
\* C20: every calculator is a deterministic pure function: in every sequence
\* of calls a call with the arguments of the first call gives the result of
\* the first call, whatever was called in between and although the caller
\* may have changed the mapping it got from get_allocation_target; and no
\* operation changes its arguments.
C20_DeterministicPure ==
    /\ []((pc = "done" /\ call = first.call) => result = first.result)
    /\ [][pc = "ready" => call' = call]_vars

\* get_allocation_target(1) has returned the phase 1 table again after the
\* caller changed the mapping returned by the first call
C20_Witness ==
    /\ Done("get_allocation_target")
    /\ call.phase = 1
    /\ first.k = "seen" /\ first.call = call /\ first.changed
    /\ result = first.result
    /\ result = Returns(_PHASE_1_TARGET)

(***************************************************************************)
(* Order of the series.  Every permutation is a product of exchanges of    *)
(* neighbours, and the series of the model are closed under them.          *)
(***************************************************************************)
\* s with the elements at positions i and i + 1 exchanged
Exchange(s, i) ==
    [j \in 1..Len(s) |-> IF j = i THEN s[i + 1]
                         ELSE IF j = i + 1 THEN s[i] ELSE s[j]]

\* the outcome of the operation of the call for the return series s
OutcomeFor(s) ==
    CASE call.op = "calculate_sharpe_ratio" ->
            calculate_sharpe_ratio(s, call.risk_free_rate)
      [] call.op = "calculate_sortino_ratio" ->
            calculate_sortino_ratio(s, call.risk_free_rate)
      [] OTHER -> calculate_volatility(s)

RECURSIVE SumSquareTenths(_)
SumSquareTenths(m) ==
    IF m = 0 THEN 0 ELSE SumSquareTenths(m - 1) + T(m) * T(m)

\* a series of numbers, finite or not
FloatReturns ==
    \A i \in 1..Len(call.returns) :
        call.returns[i].k \in {"fin", "nan", "pinf", "ninf"}

NonConstantReturns ==
    \E i, j \in 1..Len(call.returns) : call.returns[i] # call.returns[j]

\* sqrt(252) times the root of a variance > 0
PositiveVolatility(v) ==
    /\ DOMAIN v = {"k", "sqrt", "std"}
    /\ v.k = "fin" /\ v.sqrt = TRADING_DAYS_PER_YEAR
    /\ v.std.k = "fin" /\ XSign(v.std.sq) > 0

\* C22 as stated: calculate_volatility returns a value > 0 for every
\* non-constant return series of length >= 2.
C22_VolatilityPositive ==
    (Done("calculate_volatility") /\ FloatReturns /\ NonConstantReturns
        /\ Len(call.returns) >= 2)
    => (result.k = "return" /\ PositiveVolatility(result.val))

\* C22, amended: for a non-constant series of finite returns of length n >= 2
\* calculate_volatility returns sqrt(252) times the root of the sample
\* variance with denominator n - 1, which is > 0; for a series of length >= 2
\* with a NaN or infinite element it returns 0.0; it never returns a negative
\* value.
C22_VolatilityOfFinite ==
    (Done("calculate_volatility") /\ FloatReturns)
    => LET n == Len(call.returns)
       IN  /\ result.k = "return"
           /\ result.val = QZero \/ PositiveVolatility(result.val)
           /\ (FiniteReturns /\ NonConstantReturns)
              => /\ PositiveVolatility(result.val)
                 /\ result.val.std.sq.c =
                       <<Q(n * SumSquareTenths(n) - SumTenths(n) * SumTenths(n),
                           100 * n * (n - 1)), QZero, QZero>>
           /\ ~FiniteReturns => result.val = QZero

\* the volatility of [0.1, 0, -0.1] has been computed: sqrt(252) * sqrt(1/100)
C22_Witness ==
    /\ Done("calculate_volatility")
    /\ call.returns = <<Q(1, 10), QZero, Q(-1, 10)>>
    /\ result.k = "return"
    /\ PositiveVolatility(result.val)
    /\ result.val.std.sq.c[1] = Q(1, 100)


\* C23: in every state of the tracker reached through configure,
\* update_balance, add_contribution and withdraw, current_phase is 2 exactly
\* when is_complete holds (current_balance >= target_months *
\* monthly_expenses), and 1 otherwise.
C23_PhaseIffComplete ==
    /\ current_phase(tracker) \in {1, 2}
    /\ current_phase(tracker) = 2 <=> is_complete(tracker)


\* a number >= 0 (NaN is not)
NonNegative(x) == QLe(QZero, x)

\* the history after the step is the history before it and one more entry
OneEntryAppended ==
    /\ Len(tracker'.history) = Len(tracker.history) + 1
    /\ SubSeq(tracker'.history, 1, Len(tracker.history)) = tracker.history

\* a step that is a call of withdraw: refused and nothing changes if amount >
\* current_balance, else TRUE, the balance less the amount and one new entry
WithdrawStep ==
    call'.op = "withdraw"
    => IF QLt(tracker.current_balance, call'.amount)
       THEN /\ result' = Returns(FALSE)
            /\ tracker'.current_balance = tracker.current_balance
            /\ tracker'.history = tracker.history
       ELSE /\ result' = Returns(TRUE)
            /\ tracker'.current_balance =
                  QSub(tracker.current_balance, call'.amount)
            /\ OneEntryAppended

\* a step that is a call of add_contribution
ContributionStep ==
    call'.op = "add_contribution"
    => /\ tracker'.current_balance =
             QAdd(tracker.current_balance, call'.amount)
       /\ OneEntryAppended

\* a contribution or withdrawal of an amount >= 0 keeps a balance >= 0
BalanceStaysNonNegative ==
    (call'.op \in {"add_contribution", "withdraw"}
        /\ NonNegative(call'.amount)
        /\ NonNegative(tracker.current_balance))
    => NonNegative(tracker'.current_balance)

\* C26: withdraw(amount) with amount > current_balance returns False and
\* leaves current_balance and history unchanged; otherwise it returns True,
\* reduces current_balance by exactly amount and appends exactly one history
\* entry; add_contribution(amount) increases current_balance by exactly
\* amount and appends exactly one history entry; so contributions and
\* withdrawals with non-negative amounts keep current_balance >= 0.
C26_WithdrawContribute ==
    [][WithdrawStep /\ ContributionStep /\ BalanceStaysNonNegative]_vars


\* get_usd_idr_rate has returned after asking the sources
Fetched == Done("get_usd_idr_rate") /\ contacted # <<>>

\* what the two fetch functions returned to the call (None: failed, or not
\* asked)
YahooRate == _fetch_from_yahoo(call.yahoo)

CoinGeckoRate ==
    IF call.coingecko = None
    THEN None
    ELSE _fetch_from_coingecko_proxy(call.coingecko)

\* C24: without a valid cache entry get_usd_idr_rate asks Yahoo first and
\* CoinGecko only if Yahoo returned no positive rate; the result has source
\* "yahoo" or "coingecko" and is_fallback False when that source gave a
\* positive rate; it has rate 15900.0, source "fallback" and is_fallback True
\* exactly when both sources failed; the call never raises.
C24_SourceOrder ==
    Fetched
    => /\ result.k = "return"
       /\ contacted = IF positive(YahooRate)
                      THEN <<"yahoo">>
                      ELSE <<"yahoo", "coingecko">>
       /\ positive(YahooRate)
          => (result.val.source = "yahoo" /\ ~result.val.is_fallback)
       /\ (~positive(YahooRate) /\ positive(CoinGeckoRate))
          => (result.val.source = "coingecko" /\ ~result.val.is_fallback)
       /\ (/\ result.val.rate = FALLBACK_USD_IDR_RATE
           /\ result.val.source = "fallback"
           /\ result.val.is_fallback)
          <=> (~positive(YahooRate) /\ ~positive(CoinGeckoRate))


\* the cache holds an entry for the rate, and its age at the present time
Cached == "fx:USDIDR" \in DOMAIN _cache

Age == now - _cache["fx:USDIDR"].timestamp

\* a step that is a call of get_usd_idr_rate (Tick leaves pc at "ready")
RateCall == pc' = "done" /\ call'.op = "get_usd_idr_rate"

\* a call while an entry is younger than CACHE_TTL_SECONDS: the stored result
\* is returned, no source is asked, the cache is left as it is
ServedFromCache ==
    (RateCall /\ Cached /\ Age < CACHE_TTL_SECONDS)
    => /\ result' = Returns(_cache["fx:USDIDR"].value)
       /\ contacted' = <<>>
       /\ _cache' = _cache
       /\ now' = now

\* a call with no entry, or with an entry of age CACHE_TTL_SECONDS or more:
\* the sources are asked and a new entry replaces the old one
FetchedAgain ==
    (RateCall /\ (Cached => Age >= CACHE_TTL_SECONDS))
    => /\ contacted' # <<>>
       /\ contacted'[1] = "yahoo"
       /\ _cache'["fx:USDIDR"].timestamp = now'
       /\ result'.val.last_updated = now'
       /\ now' >= now

\* C25: after get_usd_idr_rate has stored a result, every call made less than
\* CACHE_TTL_SECONDS later returns the stored result without asking a source;
\* a call at or after expiry drops the entry and fetches again; every result
\* computed is cached, a fallback result included.
C25_CacheServes ==
    /\ [](Done("get_usd_idr_rate")
          => /\ Cached
             /\ result = Returns(_cache["fx:USDIDR"].value)
             /\ Age >= 0)
    /\ [][ServedFromCache /\ FetchedAgain]_vars

\* a fallback result is served from the cache 200 seconds after it was
\* stored, no source being asked
C25_Witness ==
    /\ Done("get_usd_idr_rate")
    /\ contacted = <<>>
    /\ Cached
    /\ Age = 2 * TickSeconds
    /\ result.val.source = "fallback"
    /\ result.val.last_updated = _cache["fx:USDIDR"].timestamp


(***************************************************************************)
(* Cash flow of a rebalance, and drift against trades.  Sums are pairs     *)
(* <<c, f>> of hundredths and epsilons, as in a W-number.                  *)
(***************************************************************************)
\* calculate_rebalance_trades has run with a finite portfolio_value > 0 on
\* numeric weights
TradesComputed ==
    /\ Done("calculate_rebalance_trades")
    /\ call.portfolio_value.k = "fin" /\ call.portfolio_value.n > 0
    /\ NumericWeights

\* the sum of field of the first i records whose action is in actions
RECURSIVE SumOfRecords(_, _, _)
SumOfRecords(i, field, actions) ==
    IF i = 0
    THEN <<0, 0>>
    ELSE LET rest == SumOfRecords(i - 1, field, actions)
             r == result.val[i]
         IN  IF r.action \in actions
             THEN <<rest[1] + r[field].c, rest[2] + r[field].f>>
             ELSE rest

\* the sum of the weights of mapping m over the assets of the sequence order
RECURSIVE SumOfWeights(_, _)
SumOfWeights(m, order) ==
    IF order = <<>>
    THEN <<0, 0>>
    ELSE LET rest == SumOfWeights(m, Tail(order))
             w == WeightIn(m, Head(order))
         IN  <<rest[1] + w.c, rest[2] + w.f>>

\* the assets of the call that have no record in the result
Omitted == {a \in KeyUnion : RecordsOf(a) = {}}

\* C27: for a finite portfolio_value > 0 (and numeric weights) the signed
\* trade_value of the records of calculate_rebalance_trades sum to
\* portfolio_value * (sum of target weights - sum of current weights), up to
\* 1e-12 for each asset left out; the sum is the total bought less the total
\* sold, so when the two weight totals are equal the total bought is the
\* total sold, up to the same margin.
C27_CashNeutral ==
    TradesComputed
    => LET n == Len(result.val)
           net == SumOfRecords(n, "trade_value", {"buy", "sell"})
           buy == SumOfRecords(n, "amount", {"buy"})
           sell == SumOfRecords(n, "amount", {"sell"})
           tt == SumOfWeights(call.target, AssetOrder)
           ct == SumOfWeights(call.current, AssetOrder)
           total == [k |-> "fin", c |-> tt[1] - ct[1], f |-> tt[2] - ct[2]]
           gap == ValueEpsilons(total) - net[2]
       IN  /\ net[1] = ValueHundredths(total)
           /\ Abs(gap) <= Cardinality(Omitted)
           /\ net = <<buy[1] - sell[1], buy[2] - sell[2]>>
           /\ tt = ct => (buy[1] = sell[1]
                          /\ Abs(buy[2] - sell[2]) <= Cardinality(Omitted))

\* 100000 held as bonds 0.10 and ef 0.10 against targets bonds 0.05, ef 0.05
\* and stocks 0.10 (equal totals): 10000 bought and 10000 sold in three
\* trades
C27_Witness ==
    /\ TradesComputed
    /\ call.portfolio_value = Q(100000, 1)
    /\ SumOfWeights(call.target, AssetOrder) = <<20, 0>>
    /\ SumOfWeights(call.current, AssetOrder) = <<20, 0>>
    /\ Len(result.val) = 3
    /\ SumOfRecords(3, "amount", {"buy"}) = <<1000000, 0>>
    /\ SumOfRecords(3, "amount", {"sell"}) = <<1000000, 0>>


\* what check_allocation_drift reports for the mappings of the call under
\* the default threshold 0.05
DriftsReported == check_allocation_drift(call.current, call.target, None)

\* portfolio_value * the amount of drift record d
ValueOfDrift(d) == W(ValueHundredths(d.amount), ValueEpsilons(d.amount))

\* the result holds a trade of the asset of drift record d with the same
\* action and the amount portfolio_value * drift amount
TradeMatches(d) ==
    \E j \in 1..Len(result.val) :
        /\ result.val[j].asset = d.asset
        /\ result.val[j].action = d.action
        /\ result.val[j].amount = ValueOfDrift(d)

\* C28 as stated: for the same mappings (of numeric weights), any finite
\* portfolio_value > 0 and the threshold 0.05, every asset reported by
\* check_allocation_drift has a record of calculate_rebalance_trades with the
\* same action and amount = portfolio_value * drift amount.
C28_DriftHasTrade ==
    TradesComputed
    => \A i \in 1..Len(DriftsReported) : TradeMatches(DriftsReported[i])

\* C28, amended: every asset reported by check_allocation_drift under the
\* threshold 0.05 whose portfolio_value * drift amount is above 1e-12 has a
\* record of calculate_rebalance_trades with the same action and that amount;
\* an asset whose portfolio_value * drift amount is 1e-12 or less has no
\* record of calculate_rebalance_trades.
C28_DriftHasTradeAboveEpsilon ==
    TradesComputed
    => \A i \in 1..Len(DriftsReported) :
          LET d == DriftsReported[i]
          IN  IF WLt(_EPS, ValueOfDrift(d))
              THEN TradeMatches(d)
              ELSE RecordsOf(d.asset) = {}

\* 100000 held as bonds 0.10 and ef 0.10 against targets bonds 0.05, ef 0.05
\* and stocks 0.10: three drifts reported, three trades with their actions
\* and amounts, the largest a buy of 10000
C28_Witness ==
    /\ TradesComputed
    /\ call.portfolio_value = Q(100000, 1)
    /\ Len(DriftsReported) = 3
    /\ Len(result.val) = 3
    /\ DriftsReported[1].action = "buy"
    /\ result.val[1].action = "buy"
    /\ result.val[1].amount = W(1000000, 0)
    /\ DriftsReported[2].action = "sell"


\* min(0.5, m)
HalfOr(m) == IF QLt(QHalf, m) THEN QHalf ELSE m

\* the win rate after np.clip(win_rate, 0, 1) is 1
ClippedWinRateIsOne(c) == QIsFinite(c.win_rate) /\ QLe(QOne, c.win_rate)

\* C29: kelly_criterion never returns more than 0.5, whatever its inputs,
\* and returns 0.5 only when the clipped win_rate is 1 (so the clip of the
\* half fraction at 1 never acts); calculate_position_size(pv,
\* kelly_criterion(p, b), m) is at most pv * min(0.5, m) for every pv > 0
\* and m > 0, hence at most a quarter of the portfolio under the default
\* max_allocation.
C29_HalfKellyBound ==
    /\ Done("kelly_criterion")
       => /\ result.k = "return"
          /\ QIsFinite(result.val)
          /\ QLe(result.val, QHalf)
          /\ result.val = QHalf => ClippedWinRateIsOne(call)
    /\ (Done("calculate_position_size") /\ first.k = "seen")
       => LET pv == call.portfolio_value
              m == call.max_allocation
          IN  /\ call.kelly_fraction = first.result.val
              /\ first.result.val
                    = kelly_criterion(first.call.win_rate,
                                      first.call.win_loss_ratio)
              /\ result.k = "return"
              /\ QIsFinite(result.val)
              /\ QIsFinite(pv) => QLe(result.val, QMul(pv, HalfOr(m)))
              /\ (QIsFinite(pv) /\ m = DEFAULT_MAX_ALLOCATION)
                    => QLe(result.val, QMul(pv, Q(1, 4)))

\* kelly_criterion(5/4, 1) clips the win rate to 1 and returns 0.5; passed
\* on with a portfolio of 100000 and a max_allocation of 0.75 it gives
\* 50000, the half of the portfolio and not the three quarters
C29_Witness ==
    /\ Done("calculate_position_size")
    /\ first.call.win_rate = Q(5, 4)
    /\ first.call.win_loss_ratio = QOne
    /\ first.result = Returns(QHalf)
    /\ call.portfolio_value = Q(100000, 1)
    /\ call.max_allocation = Q(3, 4)
    /\ result = Returns(Q(50000, 1))


\* the elements of the series of the call, as floats
ValueAt(j) ==
    IF call.values[j].k = "none" THEN QNaN ELSE call.values[j]

Positions == 1..Len(call.values)

NumericSeries == \A j \in Positions : call.values[j] # NotANumber

\* every element compares >= 0 (no NaN, no None, no text)
NonNegativeSeries ==
    \A j \in Positions :
        call.values[j] # NotANumber /\ QLe(QZero, ValueAt(j))

\* a value of 0 after an earlier positive value
ZeroAfterPositive ==
    \E j \in Positions :
        /\ ValueAt(j) = QZero
        /\ \E i \in 1..(j - 1) : QLt(QZero, ValueAt(i))

\* a finite value after an earlier +inf
FiniteAfterInfinite ==
    \E j \in Positions :
        /\ QIsFinite(ValueAt(j))
        /\ \E i \in 1..(j - 1) : ValueAt(i) = QPInf

\* a negative value after an earlier positive value
NegativeAfterPositive ==
    \E j \in Positions :
        /\ QLt(ValueAt(j), QZero)
        /\ \E i \in 1..(j - 1) : QLt(QZero, ValueAt(i))

MaxDdInUnitInterval ==
    /\ result.k = "return"
    /\ QLe(QZero, result.val[1])
    /\ QLe(result.val[1], QOne)

ExceedsOneOnlyAfterNegative ==
    (Done("calculate_max_drawdown") /\ NumericSeries)
    => /\ result.k = "return"
       /\ QLt(QOne, result.val[1]) => NegativeAfterPositive

\* C30 as stated: for a series whose elements are all non-negative max_dd is
\* in [0, 1], and is 1 exactly when some value is 0 after an earlier positive
\* value; max_dd exceeds 1 only if the series has a negative value after a
\* positive peak.
C30_DrawdownRange ==
    /\ (Done("calculate_max_drawdown") /\ NonNegativeSeries)
       => /\ MaxDdInUnitInterval
          /\ result.val[1] = QOne <=> ZeroAfterPositive
    /\ ExceedsOneOnlyAfterNegative

\* C30, amended: for a series whose elements are all non-negative max_dd is
\* in [0, 1]; it is 1 when some value is 0 after an earlier positive value
\* or some finite value follows an earlier +inf, and (computing exactly) in
\* no other case; max_dd exceeds 1 only if the series has a negative value
\* after a positive peak.
C30_DrawdownRangeWithInfinity ==
    /\ (Done("calculate_max_drawdown") /\ NonNegativeSeries)
       => /\ MaxDdInUnitInterval
          /\ result.val[1] = QOne
                <=> (ZeroAfterPositive \/ FiniteAfterInfinite)
    /\ ExceedsOneOnlyAfterNegative

\* [2, 0, 3] has lost everything between the indices 0 and 1: max_dd = 1
C30_Witness ==
    /\ Done("calculate_max_drawdown")
    /\ call.values = <<Q(2, 1), QZero, Q(3, 1)>>
    /\ NonNegativeSeries
    /\ ZeroAfterPositive
    /\ result = Returns(<<QOne, 0, 1>>)

=============================================================================
